---- MODULE Spec2Model ----
(***************************************************************************)
(* A model of ObsidianExporter (src/obsidianexporter.py).                   *)
(*                                                                          *)
(* The exporter is one Python class whose generate_html renders every node  *)
(* of a canvas document (markup of the node text, canvas extent) and emits  *)
(* a JavaScript viewer, class ObsidianCanvas, that draws the edges and      *)
(* owns the zoom and scroll state.  Four specifications cover it:           *)
(*   SpecMarkup  the markup pipeline of generate_html, for one node text    *)
(*   SpecLayout  filter_main_nodes and the canvas extent of generate_html   *)
(*   SpecEdge    calculateAnchorPoint, createPerpendicularControlPoints     *)
(*               and drawEdge of the viewer                                 *)
(*   SpecViewer  centerView, zoomIn, zoomOut, handleWheel, zoomReset        *)
(* Each specification leaves the variables of the others at their idle      *)
(* values.                                                                  *)
(***************************************************************************)
EXTENDS Integers, Sequences, FiniteSets, TLC

VARIABLES
    mText,      \* SpecMarkup: the node text handed to generate_html
    mHtml,      \* SpecMarkup: the rendered node content
    mPc,        \* SpecMarkup: "ready" before the render, "done" after
    lNodes,     \* SpecLayout: the document's node list
    lMain,      \* SpecLayout: what filter_main_nodes returned (indices into lNodes)
    lExtent,    \* SpecLayout: canvas_width, canvas_height, offset_x, offset_y
    lBoxes,     \* SpecLayout: the node boxes emitted, in output order
    lPc,        \* SpecLayout: "ready" | "done" | "raised" (generate_html raised)
    lExported,  \* SpecLayout: what export_to_web returned, "none" before it ran
    eNodes,     \* SpecEdge: this.nodes, node id -> rectangle
    eEdges,     \* SpecEdge: this.edges, the document's edge list
    eLayer,     \* SpecEdge: the paths appended to the edges layer, in order
    eNext,      \* SpecEdge: position of drawEdges' forEach in eEdges
    eLabels,    \* SpecEdge: the label groups appended to the edges layer, in order
    eLog,       \* SpecEdge: the edges reported by console.warn, in order
    eDraw,      \* SpecEdge: the random draws and the central control point of the
                \* last drawEdge call (locals of the call)
    vNodes,     \* SpecViewer: this.nodes, the rectangles of the node boxes
    vCanvas,    \* SpecViewer: width and height of the canvas element
    vp,         \* SpecViewer: container.clientWidth / clientHeight
    zoom,       \* SpecViewer: this.zoom, a rational <<num, den>>
    optimalZoom,\* SpecViewer: this.optimalZoom
    scroll,     \* SpecViewer: container.scrollLeft / scrollTop, rationals
    lastMouse,  \* SpecViewer: this.lastMouseX / lastMouseY, set or not yet
    isPanning,  \* SpecViewer: this.isPanning
    panStart,   \* SpecViewer: this.panStart
    scrollStart,\* SpecViewer: this.scrollStart
    scrollEnabled, \* SpecViewer: container has class scroll-enabled
    lastOp,     \* SpecViewer: the handler that ran last
    focus,      \* SpecViewer: history of the last zoom: its pointer, and the
                \* zoom and scroll offsets it started from
    ops,        \* SpecViewer: number of handlers run so far
    fitZoom,    \* SpecViewer: history: the zoom the last centerView computed
    sContents,  \* SpecSearch: the text content of each node's .node-content
    sQuery,     \* SpecSearch: the query of the last searchNodes call
    sResults,   \* SpecSearch: the entries of the searchResults element, in order
    hNow,       \* SpecHighlight: the time, in ms
    hShadow,    \* SpecHighlight: node -> its element has the highlight box shadow
    hTimers,    \* SpecHighlight: the pending timers, [node, due]
    hLast,      \* SpecHighlight: history: node -> time of its last highlightNode, -1 if none
    hCalls,     \* SpecHighlight: number of highlightNode calls so far
    iFile,      \* SpecImage: the file path of a file node
    iHtml,      \* SpecImage: the page generate_html returns for it
    iPc         \* SpecImage: "ready" before the render, "done" after

markupVars == <<mText, mHtml, mPc>>
layoutVars == <<lNodes, lMain, lExtent, lBoxes, lPc, lExported>>
edgeVars   == <<eNodes, eEdges, eLayer, eNext, eLabels, eLog, eDraw>>
viewerVars == <<vNodes, vCanvas, vp, zoom, optimalZoom, scroll, lastMouse, isPanning,
                panStart, scrollStart, scrollEnabled, lastOp, focus, ops, fitZoom>>
searchVars == <<sContents, sQuery, sResults>>
highlightVars == <<hNow, hShadow, hTimers, hLast, hCalls>>
imageVars  == <<iFile, iHtml, iPc>>
vars == <<markupVars, layoutVars, edgeVars, viewerVars, searchVars, highlightVars, imageVars>>

(***************************************************************************)
(* Text.  A text is a sequence of tokens: a character is a one-character    *)
(* string; a tag that the renderer emits is one token, because no later     *)
(* pattern of the pipeline can match inside the tags it emits ("<pre>"      *)
(* stands for the whole opening of a code block, button included, and       *)
(* "</pre>" for its closing "</div></pre>").                                *)
(***************************************************************************)
NL == "\n"
White == {" ", "\n", "\t"}
Digits == {"0", "1", "2", "3", "4", "5", "6", "7", "8", "9"}
Tick == "tick"     \* the backquote character
Fence == <<Tick, Tick, Tick>>

RECURSIVE SplitFrom(_, _, _, _)
SplitFrom(s, sep, i, cur) ==
    IF i > Len(s) THEN <<cur>>
    ELSE IF s[i] = sep THEN <<cur>> \o SplitFrom(s, sep, i + 1, <<>>)
    ELSE SplitFrom(s, sep, i + 1, Append(cur, s[i]))

\* str.split(sep), sep one token
Split(s, sep) == SplitFrom(s, sep, 1, <<>>)

RECURSIVE Join(_, _)
\* sep.join(ls)
Join(ls, sep) ==
    IF Len(ls) = 0 THEN <<>>
    ELSE IF Len(ls) = 1 THEN ls[1]
    ELSE ls[1] \o <<sep>> \o Join(Tail(ls), sep)

RECURSIVE LStrip(_)
LStrip(s) == IF s # <<>> /\ s[1] \in White THEN LStrip(Tail(s)) ELSE s

RECURSIVE RStrip(_)
RStrip(s) == IF s # <<>> /\ s[Len(s)] \in White THEN RStrip(SubSeq(s, 1, Len(s) - 1)) ELSE s

\* str.strip()
Strip(s) == RStrip(LStrip(s))

\* str.startswith(p)
StartsWith(s, p) == Len(s) >= Len(p) /\ SubSeq(s, 1, Len(p)) = p

\* the tokens of p stand at s[i..]
MatchAt(s, i, p) == i >= 1 /\ i + Len(p) - 1 <= Len(s) /\ SubSeq(s, i, i + Len(p) - 1) = p

RECURSIVE RunEnd(_, _, _)
\* the first index j >= i with s[j] in stop, Len(s)+1 when there is none
RunEnd(s, i, stop) == IF i > Len(s) \/ s[i] \in stop THEN i ELSE RunEnd(s, i + 1, stop)

RECURSIVE SkipIn(_, _, _)
\* the first index j >= i with s[j] not in set, Len(s)+1 when there is none
SkipIn(s, i, set) == IF i > Len(s) \/ s[i] \notin set THEN i ELSE SkipIn(s, i + 1, set)

RECURSIVE FirstTok(_, _, _)
\* the first index j >= i with s[j] = t, 0 when there is none
FirstTok(s, i, t) ==
    IF i > Len(s) THEN 0 ELSE IF s[i] = t THEN i ELSE FirstTok(s, i + 1, t)

RECURSIVE CountTok(_, _)
CountTok(s, t) ==
    IF s = <<>> THEN 0 ELSE (IF s[1] = t THEN 1 ELSE 0) + CountTok(Tail(s), t)

(***************************************************************************)
(* generate_html, the markup of one node (lines 751-832).                   *)
(***************************************************************************)
RECURSIVE EscapeHtml(_)
\* content.replace('<', '&lt;').replace('>', '&gt;')
EscapeHtml(s) ==
    IF s = <<>> THEN <<>>
    ELSE <<(IF s[1] = "<" THEN "&lt;" ELSE IF s[1] = ">" THEN "&gt;" ELSE s[1])>>
         \o EscapeHtml(Tail(s))

HOpen == <<"<h1>", "<h2>", "<h3>", "<h4>", "<h5>", "<h6>">>
HClose == <<"</h1>", "</h2>", "</h3>", "</h4>", "</h5>", "</h6>">>
HeadingPrefix(k) == [i \in 1..k |-> "#"] \o <<" ">>

\* the elif chain of lines 777-788: the first k whose test
\* line.strip().startswith('#'*k + ' ') passes, 0 when none does
\* (the level-1 test without its space: a line of several # stops at level 1)
HeadingLevelMissingSpace(line) ==
    LET t == Strip(line) IN
    IF StartsWith(t, <<"#">>) THEN 1
    ELSE IF StartsWith(t, HeadingPrefix(2)) THEN 2
    ELSE IF StartsWith(t, HeadingPrefix(3)) THEN 3
    ELSE IF StartsWith(t, HeadingPrefix(4)) THEN 4
    ELSE IF StartsWith(t, HeadingPrefix(5)) THEN 5
    ELSE IF StartsWith(t, HeadingPrefix(6)) THEN 6
    ELSE 0

HeadingLevel(line) ==
    LET t == Strip(line) IN
    IF StartsWith(t, HeadingPrefix(1)) THEN 1
    ELSE IF StartsWith(t, HeadingPrefix(2)) THEN 2
    ELSE IF StartsWith(t, HeadingPrefix(3)) THEN 3
    ELSE IF StartsWith(t, HeadingPrefix(4)) THEN 4
    ELSE IF StartsWith(t, HeadingPrefix(5)) THEN 5
    ELSE IF StartsWith(t, HeadingPrefix(6)) THEN 6
    ELSE 0

\* re.sub(r'^#{k} (.*)$', r'<hk>\1</hk>', line): anchored at the unstripped line
HeadingSub(line, k) ==
    IF StartsWith(line, HeadingPrefix(k))
    THEN <<HOpen[k]>> \o SubSeq(line, k + 2, Len(line)) \o <<HClose[k]>>
    ELSE line

HeadingLine(line) ==
    LET k == HeadingLevel(line) IN IF k = 0 THEN line ELSE HeadingSub(line, k)

RECURSIVE HeadingLoop(_, _, _)
\* the loop of lines 768-790 over the lines, in_code_block toggled by fence lines
HeadingLoop(lines, i, in_code_block) ==
    IF i > Len(lines) THEN <<>>
    ELSE IF StartsWith(Strip(lines[i]), Fence)
         THEN <<lines[i]>> \o HeadingLoop(lines, i + 1, ~in_code_block)
    ELSE IF in_code_block
         THEN <<lines[i]>> \o HeadingLoop(lines, i + 1, in_code_block)
    ELSE <<HeadingLine(lines[i])>> \o HeadingLoop(lines, i + 1, in_code_block)

HeadingPass(content) == Join(HeadingLoop(Split(content, NL), 1, FALSE), NL)

RECURSIVE FindFence(_, _)
\* the first index >= i where the fence marker stands, 0 when there is none
FindFence(s, i) ==
    IF i + 2 > Len(s) THEN 0 ELSE IF MatchAt(s, i, Fence) THEN i ELSE FindFence(s, i + 1)

\* replace_code_block (lines 94-101)
ReplaceCodeBlock(code_content) ==
    LET lines == Split(code_content, NL) IN
    IF Len(lines) > 1
    THEN Fence \o <<NL>> \o Join(Tail(lines), NL) \o <<NL>> \o Fence
    ELSE Fence \o <<NL>> \o Fence

\* add_copy_button (lines 753-762)
AddCopyButton(code_content) ==
    LET lines == Split(code_content, NL)
        clean_code == IF Len(lines) > 1 THEN Join(Tail(lines), NL) ELSE code_content
    IN <<"<pre>">> \o clean_code \o <<"</pre>">>

FenceRepl(group, mode) ==
    IF mode = "clean" THEN ReplaceCodeBlock(group) ELSE AddCopyButton(group)

RECURSIVE SubFence(_, _, _)
\* re.sub of the fence pattern (lines 103 and 797) from index i: the leftmost
\* opening marker, a lazy group, the nearest closing marker
SubFence(s, i, mode) ==
    LET o == FindFence(s, i)
        c == IF o = 0 THEN 0 ELSE FindFence(s, o + 3)
    IN IF c = 0 THEN SubSeq(s, i, Len(s))
       ELSE SubSeq(s, i, o - 1) \o FenceRepl(SubSeq(s, o + 3, c - 1), mode)
            \o SubFence(s, c + 3, mode)

\* clean_content_after_code (lines 89-105)
CleanContentAfterCode(content) ==
    IF content = <<>> THEN content ELSE SubFence(content, 1, "clean")

\* lines 794-797
CodePass(content) ==
    IF FindFence(content, 1) # 0
    THEN SubFence(CleanContentAfterCode(content), 1, "button")
    ELSE content

\* the last index of a match of \*\*([^*]+)\*\* that starts at i, 0 when none does
BoldEnd(s, i) ==
    IF MatchAt(s, i, <<"*", "*">>)
    THEN LET j == RunEnd(s, i + 2, {"*"}) IN
         IF j > i + 2 /\ MatchAt(s, j, <<"*", "*">>) THEN j + 1 ELSE 0
    ELSE 0

RECURSIVE SubBold(_, _)
\* re.sub(r'\*\*([^*]+)\*\*', r'<strong>\1</strong>', s) (line 799)
SubBold(s, i) ==
    IF i > Len(s) THEN <<>>
    ELSE LET e == BoldEnd(s, i) IN
         IF e # 0
         THEN <<"<strong>">> \o SubSeq(s, i + 2, e - 2) \o <<"</strong>">> \o SubBold(s, e + 1)
         ELSE <<s[i]>> \o SubBold(s, i + 1)

\* the last index of a match of \*([^*]+)\* that starts at i, 0 when none does
ItalicEnd(s, i) ==
    IF MatchAt(s, i, <<"*">>)
    THEN LET j == RunEnd(s, i + 1, {"*"}) IN
         IF j > i + 1 /\ j <= Len(s) THEN j ELSE 0
    ELSE 0

RECURSIVE SubItalic(_, _)
\* re.sub(r'\*([^*]+)\*', r'<em>\1</em>', s) (line 800)
SubItalic(s, i) ==
    IF i > Len(s) THEN <<>>
    ELSE LET e == ItalicEnd(s, i) IN
         IF e # 0
         THEN <<"<em>">> \o SubSeq(s, i + 1, e - 1) \o <<"</em>">> \o SubItalic(s, e + 1)
         ELSE <<s[i]>> \o SubItalic(s, i + 1)

\* a match of \[([^\]]+)\]\(([^)]+)\) that starts at i: <<index of ], index of )>>
LinkEnd(s, i) ==
    IF MatchAt(s, i, <<"[">>)
    THEN LET j == RunEnd(s, i + 1, {"]"}) IN
         IF j > i + 1 /\ MatchAt(s, j, <<"]", "(">>)
         THEN LET k == RunEnd(s, j + 2, {")"}) IN
              IF k > j + 2 /\ k <= Len(s) THEN <<j, k>> ELSE <<0, 0>>
         ELSE <<0, 0>>
    ELSE <<0, 0>>

RECURSIVE SubLink(_, _)
\* re.sub(r'\[([^\]]+)\]\(([^)]+)\)', r'<a href="\2" target="_blank">\1</a>', s) (line 801)
SubLink(s, i) ==
    IF i > Len(s) THEN <<>>
    ELSE LET e == LinkEnd(s, i) IN
         IF e[2] # 0
         THEN <<"<a href=\"">> \o SubSeq(s, e[1] + 2, e[2] - 1) \o <<"\" target=\"_blank\">">>
              \o SubSeq(s, i + 1, e[1] - 1) \o <<"</a>">> \o SubLink(s, e[2] + 1)
         ELSE <<s[i]>> \o SubLink(s, i + 1)

\* the last index of a match of \n\s*\n that starts at i, 0 when none does:
\* \s* is greedy, so the match ends at the last newline of the white run
ParaBreakEnd(s, i) ==
    IF MatchAt(s, i, <<NL>>)
    THEN LET r == SkipIn(s, i + 1, White)
             c == {j \in (i + 1)..(r - 1) : s[j] = NL}
         IN IF c = {} THEN 0 ELSE CHOOSE j \in c : \A k \in c : k <= j
    ELSE 0

RECURSIVE SubParaBreak(_, _)
\* re.sub(r'\n\s*\n', '</p><p>', s) (line 802)
SubParaBreak(s, i) ==
    IF i > Len(s) THEN <<>>
    ELSE LET e == ParaBreakEnd(s, i) IN
         IF e # 0 THEN <<"</p>", "<p>">> \o SubParaBreak(s, e + 1)
         ELSE <<s[i]>> \o SubParaBreak(s, i + 1)

RECURSIVE SubEmptyPara(_, _)
\* re.sub(r'<p>\s*</p>', '', s) (line 804)
SubEmptyPara(s, i) ==
    IF i > Len(s) THEN <<>>
    ELSE LET r == SkipIn(s, i + 1, White) IN
         IF s[i] = "<p>" /\ r <= Len(s) /\ s[r] = "</p>"
         THEN SubEmptyPara(s, r + 1)
         ELSE <<s[i]>> \o SubEmptyPara(s, i + 1)

\* re.sub(r'\n', '<br>', s) (line 805)
SubBr(s) == [i \in 1..Len(s) |-> IF s[i] = NL THEN "<br>" ELSE s[i]]

\* the tail \s+(.+?)</p> of both list patterns, the white run starting at w:
\* <<first index of the group, index of </p>>>, <<0, 0>> when there is no match.
\* \s+ is greedy and gives back; (.+?) takes at least one token, up to the first </p>
LiTail(s, w) ==
    LET r == SkipIn(s, w, White)
        q == {g \in (w + 1)..r : g <= Len(s) /\ FirstTok(s, g + 1, "</p>") # 0}
    IN IF q = {} THEN <<0, 0>>
       ELSE LET g == CHOOSE x \in q : \A y \in q : y <= x
            IN <<g, FirstTok(s, g + 1, "</p>")>>

\* a match of <p>(\d+)\.\s+(.+?)</p> that starts at i
OrderedItem(s, i) ==
    IF MatchAt(s, i, <<"<p>">>)
    THEN LET d == SkipIn(s, i + 1, Digits) IN
         IF d > i + 1 /\ MatchAt(s, d, <<".">>) THEN LiTail(s, d + 1) ELSE <<0, 0>>
    ELSE <<0, 0>>

\* a match of <p>[-*]\s+(.+?)</p> that starts at i
BulletItem(s, i) ==
    IF MatchAt(s, i, <<"<p>">>) /\ i + 1 <= Len(s) /\ s[i + 1] \in {"-", "*"}
    THEN LiTail(s, i + 2)
    ELSE <<0, 0>>

RECURSIVE SubItem(_, _, _)
\* lines 806 (kind "ol") and 807 (kind "ul"): the paragraph becomes <li>group</li>
SubItem(s, i, kind) ==
    IF i > Len(s) THEN <<>>
    ELSE LET e == IF kind = "ol" THEN OrderedItem(s, i) ELSE BulletItem(s, i) IN
         IF e[2] # 0
         THEN <<"<li>">> \o SubSeq(s, e[1], e[2] - 1) \o <<"</li>">> \o SubItem(s, e[2] + 1, kind)
         ELSE <<s[i]>> \o SubItem(s, i + 1, kind)

\* re.search(r'^\d+\.', line) (line 816)
StartsOrdered(line) ==
    LET d == SkipIn(line, 1, Digits) IN d > 1 /\ MatchAt(line, d, <<".">>)

ListOpen(list_type) == IF list_type = "ol" THEN <<"<ol>">> ELSE <<"<ul>">>
ListClose(list_type) == IF list_type = "ol" THEN <<"</ol>">> ELSE <<"</ul>">>

RECURSIVE ListLoop(_, _, _, _)
\* the loop of lines 813-830 over the <br>-separated lines
ListLoop(lines, i, in_list, list_type) ==
    IF i > Len(lines)
    THEN IF in_list THEN <<ListClose(list_type)>> ELSE <<>>
    ELSE IF StartsWith(Strip(lines[i]), <<"<li>">>)
         THEN IF ~in_list
              THEN LET t == IF StartsOrdered(lines[i]) THEN "ol" ELSE "ul" IN
                   <<ListOpen(t), lines[i]>> \o ListLoop(lines, i + 1, TRUE, t)
              ELSE <<lines[i]>> \o ListLoop(lines, i + 1, in_list, list_type)
    ELSE IF in_list
         THEN <<ListClose(list_type), lines[i]>> \o ListLoop(lines, i + 1, FALSE, list_type)
    ELSE <<lines[i]>> \o ListLoop(lines, i + 1, in_list, list_type)

\* lines 808-832
ListPass(content) == Join(ListLoop(Split(content, "<br>"), 1, FALSE, "none"), "<br>")

\* lines 799-807
InlinePass(content) ==
    LET bold == SubBold(content, 1)
        ital == SubItalic(bold, 1)
        link == SubLink(ital, 1)
        para == <<"<p>">> \o SubParaBreak(link, 1) \o <<"</p>">>
        kept == SubBr(SubEmptyPara(para, 1))
    IN SubItem(SubItem(kept, 1, "ol"), 1, "ul")

\* generate_html's markup of one node text (lines 751-832)
RenderContent(text) == ListPass(InlinePass(CodePass(HeadingPass(EscapeHtml(text)))))

(***************************************************************************)
(* Arithmetic.  Python computes with floats; the model computes the same    *)
(* quantities exactly, as integers over a common denominator.               *)
(***************************************************************************)
Abs(a) == IF a < 0 THEN -a ELSE a
Max(a, b) == IF a >= b THEN a ELSE b
Min(a, b) == IF a <= b THEN a ELSE b

RECURSIVE GcdNat(_, _)
GcdNat(a, b) == IF b = 0 THEN a ELSE GcdNat(b, a % b)
Gcd(a, b) == GcdNat(Abs(a), Abs(b))

RECURSIVE SumSeq(_)
SumSeq(s) == IF s = <<>> THEN 0 ELSE s[1] + SumSeq(Tail(s))

RECURSIVE GcdSeq(_)
GcdSeq(s) == IF s = <<>> THEN 0 ELSE Gcd(s[1], GcdSeq(Tail(s)))

RECURSIVE RootBetween(_, _, _)
\* the largest r in lo..hi with r*r <= q
RootBetween(q, lo, hi) ==
    IF lo >= hi THEN lo
    ELSE LET mid == (lo + hi + 1) \div 2 IN
         IF mid * mid <= q THEN RootBetween(q, mid, hi) ELSE RootBetween(q, lo, mid - 1)

\* q ** 0.5 rounded down; exact on the squares
Root(q) == RootBetween(q, 0, Min(q, 46340))
IsSquare(q) == Root(q) * Root(q) = q

(***************************************************************************)
(* filter_main_nodes (lines 129-160).  A node is a record x, y, width,      *)
(* height; the result is the list of the positions of the kept nodes.       *)
(***************************************************************************)
\* twice the node's centre, node['x'] + node['width']/2 (lines 133-134, 137-138)
Cx2(node) == 2 * node.x + node.width
Cy2(node) == 2 * node.y + node.height

\* node_center - center (line 139), times 2n, on both axes
DevX(nodes, i) == Len(nodes) * Cx2(nodes[i]) - SumSeq([j \in 1..Len(nodes) |-> Cx2(nodes[j])])
DevY(nodes, i) == Len(nodes) * Cy2(nodes[i]) - SumSeq([j \in 1..Len(nodes) |-> Cy2(nodes[j])])

\* the common divisor the distances are measured in: they only enter comparisons
\* with each other, so the unit does not matter
DevUnit(nodes) ==
    Max(1, GcdSeq([j \in 1..Len(nodes) |-> Gcd(DevX(nodes, j), DevY(nodes, j))]))

\* the square of the distance of node i from the centre of mass (line 139)
Distance2(nodes, i) ==
    LET u == DevUnit(nodes) IN
    (DevX(nodes, i) \div u) * (DevX(nodes, i) \div u)
    + (DevY(nodes, i) \div u) * (DevY(nodes, i) \div u)

\* distance (line 139): the root is exact for the node lists of the model
Distance(nodes, i) == Root(Distance2(nodes, i))

RECURSIVE InsertSorted(_, _, _)
\* distances.sort(key=lambda x: x[0]) (line 142): stable, ascending
InsertSorted(sorted, nodes, i) ==
    IF sorted = <<>> THEN <<i>>
    ELSE IF Distance(nodes, sorted[Len(sorted)]) <= Distance(nodes, i) THEN Append(sorted, i)
    ELSE Append(InsertSorted(SubSeq(sorted, 1, Len(sorted) - 1), nodes, i), sorted[Len(sorted)])

RECURSIVE SortedUpTo(_, _)
SortedUpTo(nodes, k) ==
    IF k = 0 THEN <<>> ELSE InsertSorted(SortedUpTo(nodes, k - 1), nodes, k)

SortByDistance(nodes) == SortedUpTo(nodes, Len(nodes))

\* n * (distance - mean_distance) (line 145), in the unit of the distances
MeanDev(nodes, i) ==
    Len(nodes) * Distance(nodes, i) - SumSeq([j \in 1..Len(nodes) |-> Distance(nodes, j)])

MeanDevUnit(nodes) == Max(1, GcdSeq([j \in 1..Len(nodes) |-> MeanDev(nodes, j)]))

\* d[0] <= threshold, threshold = mean_distance + 1.5 * std_deviation (lines 146-150):
\* n*(d - mean) <= 1.5 * sqrt(sum of (n*(d_j - mean))^2 / n), squared
\* (the threshold taken as mean_distance + 1.0 * std_deviation)
WithinThresholdFactorOne(nodes, i) ==
    LET u == MeanDevUnit(nodes)
        e == [j \in 1..Len(nodes) |-> MeanDev(nodes, j) \div u]
        sq == SumSeq([j \in 1..Len(nodes) |-> e[j] * e[j]])
    IN e[i] <= 0 \/ Len(nodes) * e[i] * e[i] <= sq

WithinThreshold(nodes, i) ==
    LET u == MeanDevUnit(nodes)
        e == [j \in 1..Len(nodes) |-> MeanDev(nodes, j) \div u]
        sq == SumSeq([j \in 1..Len(nodes) |-> e[j] * e[j]])
    IN e[i] <= 0 \/ 4 * Len(nodes) * e[i] * e[i] <= 9 * sq

AllPositions(nodes) == [i \in 1..Len(nodes) |-> i]

\* (the early return handing back an empty list)
FilterMainNodesEmptyEarly(nodes) ==
    IF Len(nodes) <= 1 THEN <<>>
    ELSE IF Len(nodes) > 2
         THEN SelectSeq(SortByDistance(nodes), LAMBDA i : WithinThreshold(nodes, i))
    ELSE AllPositions(nodes)

\* filter_main_nodes (lines 129-160)
FilterMainNodes(nodes) ==
    IF Len(nodes) <= 1 THEN AllPositions(nodes)
    ELSE IF Len(nodes) > 2
         THEN SelectSeq(SortByDistance(nodes), LAMBDA i : WithinThreshold(nodes, i))
    ELSE AllPositions(nodes)

(***************************************************************************)
(* generate_html, the canvas extent (lines 188-219) and the node boxes      *)
(* (lines 742-748).                                                         *)
(***************************************************************************)
margin == 200
title_margin == 100
min_canvas_width == 2000
min_canvas_height == 1500

SetMin(S) == CHOOSE a \in S : \A b \in S : a <= b
SetMax(S) == CHOOSE a \in S : \A b \in S : a >= b

\* the bounding box of the nodes at the positions sel (lines 195-198, 200-203)
BoundingBox(nodes, sel) ==
    [min_x |-> SetMin({nodes[sel[k]].x : k \in DOMAIN sel}),
     max_x |-> SetMax({nodes[sel[k]].x + nodes[sel[k]].width : k \in DOMAIN sel}),
     min_y |-> SetMin({nodes[sel[k]].y : k \in DOMAIN sel}),
     max_y |-> SetMax({nodes[sel[k]].y + nodes[sel[k]].height : k \in DOMAIN sel})]

\* (the title margin left out of the height)
ExtentNoTitle(nodes, main) ==
    IF nodes # <<>>
    THEN LET b == BoundingBox(nodes, IF main # <<>> THEN main ELSE AllPositions(nodes)) IN
         [canvas_width |-> Max(b.max_x - b.min_x + margin * 2, min_canvas_width),
          canvas_height |-> Max(b.max_y - b.min_y + margin * 2, min_canvas_height),
          offset_x |-> -b.min_x + margin,
          offset_y |-> -b.min_y + margin + title_margin]
    ELSE [canvas_width |-> 2000, canvas_height |-> 1500, offset_x |-> 0, offset_y |-> 0]

\* lines 191-219, main the result of filter_main_nodes
Extent(nodes, main) ==
    IF nodes # <<>>
    THEN LET b == BoundingBox(nodes, IF main # <<>> THEN main ELSE AllPositions(nodes)) IN
         [canvas_width |-> Max(b.max_x - b.min_x + margin * 2, min_canvas_width),
          canvas_height |-> Max(b.max_y - b.min_y + margin * 2 + title_margin, min_canvas_height),
          offset_x |-> -b.min_x + margin,
          offset_y |-> -b.min_y + margin + title_margin]
    ELSE [canvas_width |-> 2000, canvas_height |-> 1500, offset_x |-> 0, offset_y |-> 0]

\* dict.get: the field's value, or the default when the node has no such field
Has(node, field) == field \in DOMAIN node
Get(node, field, default) == IF Has(node, field) THEN node[field] ELSE default

\* the box of the node at index i (from 0) as emitted (lines 745-748)
NodeBox(node, i, extent) ==
    [left |-> Get(node, "x", 100 + i * 200) + extent.offset_x,
     top |-> Get(node, "y", 100 + i * 150) + extent.offset_y,
     width |-> Max(150, Get(node, "width", 200)),
     height |-> Max(60, Get(node, "height", 100))]

\* the nodes the loop of line 742 emits, as positions of the input list
EmittedMainOnly(nodes, main) == main
EmittedNodes(nodes, main) == AllPositions(nodes)

\* int(s, 16) of lines 839-841 accepts a non-empty run of hexadecimal digits
HexDigits ==
    {"0", "1", "2", "3", "4", "5", "6", "7", "8", "9", "a", "b", "c", "d", "e", "f"}
IsHex(s) == s # <<>> /\ \A k \in DOMAIN s : s[k] \in HexDigits

\* the slice color[a:b] of Python, a and b counted from 0
Slice(s, a, b) == SubSeq(s, a + 1, Min(b, Len(s)))

\* get_node_color (lines 107-127) returns a colour that starts with # as it is
\* and replaces every other by a six digit colour of its table
LiteralColor(node) == Has(node, "color") /\ node.color # <<>> /\ node.color[1] = "#"

\* a group node whose literal colour has not three pairs of hexadecimal digits
\* makes line 839, 840 or 841 raise ValueError
GroupColorRaises(node) ==
    /\ Get(node, "type", "text") = "group"
    /\ LiteralColor(node)
    /\ \E a \in {1, 3, 5} : ~IsHex(Slice(node.color, a, a + 2))

\* node['x'], node['width'], node['y'], node['height'] of lines 194-201 (and of
\* lines 133-139 for more than one node) raise KeyError for a missing field
MissingField(node) == \E field \in {"x", "y", "width", "height"} : ~Has(node, field)

\* generate_html raises instead of returning the page
GenerateHtmlRaises(nodes) ==
    \E i \in DOMAIN nodes : MissingField(nodes[i]) \/ GroupColorRaises(nodes[i])

(***************************************************************************)
(* The viewer's edge router (lines 1044-1345).  Coordinates are kept in     *)
(* half pixels, so that the centre of a side, x + width / 2, is an integer; *)
(* a label point is kept in sixteenths of a pixel.                          *)
(***************************************************************************)
Half(px) == 2 * px
Pt(x, y) == [x |-> x, y |-> y]
NoSide == "none"        \* the edge declares no side (undefined)
Sides == {"top", "bottom", "left", "right"}

\* (the stand-off applied to departures too)
CalculateAnchorPointAlwaysOffset(node, targetNode, side, isArrival) ==
    LET centerX == Half(node.x) + node.width
        centerY == Half(node.y) + node.height
        offset == 30
    IN CASE side = "top" -> Pt(centerX, Half(node.y - offset))
         [] side = "bottom" -> Pt(centerX, Half(node.y + node.height + offset))
         [] side = "left" -> Pt(Half(node.x - offset), centerY)
         [] side = "right" -> Pt(Half(node.x + node.width + offset), centerY)
         [] OTHER -> Pt(centerX, centerY)

\* calculateAnchorPoint (lines 1249-1299)
CalculateAnchorPoint(node, targetNode, side, isArrival) ==
    LET centerX == Half(node.x) + node.width
        centerY == Half(node.y) + node.height
        offset == IF isArrival THEN 30 ELSE 0
        dx == targetNode.x - node.x
        dy == targetNode.y - node.y
    IN CASE side = "top" -> Pt(centerX, Half(node.y - offset))
         [] side = "bottom" -> Pt(centerX, Half(node.y + node.height + offset))
         [] side = "left" -> Pt(Half(node.x - offset), centerY)
         [] side = "right" -> Pt(Half(node.x + node.width + offset), centerY)
         [] OTHER ->
              IF Abs(dx) > Abs(dy)
              THEN IF dx > 0 THEN Pt(Half(node.x + node.width + offset), centerY)
                   ELSE Pt(Half(node.x - offset), centerY)
              ELSE IF dy > 0 THEN Pt(centerX, Half(node.y + node.height + offset))
                   ELSE Pt(centerX, Half(node.y - offset))

\* one control point (lines 1306-1321 and 1323-1338)
ControlPoint(anchor, side) ==
    LET offset == 80 IN
    CASE side = "top" -> Pt(anchor.x, anchor.y - Half(offset))
      [] side = "bottom" -> Pt(anchor.x, anchor.y + Half(offset))
      [] side = "left" -> Pt(anchor.x - Half(offset), anchor.y)
      [] side = "right" -> Pt(anchor.x + Half(offset), anchor.y)
      [] OTHER -> anchor

\* (the left side pushed to the right, as the right side is)
CreatePerpendicularControlPointsLeftAsRight(fromAnchor, toAnchor, fromSide, toSide) ==
    [fromControl |-> ControlPoint(fromAnchor, IF fromSide = "left" THEN "right" ELSE fromSide),
     toControl |-> ControlPoint(toAnchor, IF toSide = "left" THEN "right" ELSE toSide)]

\* createPerpendicularControlPoints (lines 1301-1341)
CreatePerpendicularControlPoints(fromAnchor, toAnchor, fromSide, toSide) ==
    [fromControl |-> ControlPoint(fromAnchor, fromSide),
     toControl |-> ControlPoint(toAnchor, toSide)]

\* adjustArrowEndPoint (lines 1343-1345)
AdjustArrowEndPoint(toAnchor, toSide) == toAnchor

\* edge.fromSide || 'right', edge.toSide || 'left' (lines 1060-1061, 1078-1079)
SideOr(side, default) == IF side = NoSide THEN default ELSE side

\* what Math.random gives for the factor 0.8 + Math.random() * 0.4 (line 1072),
\* in tenths
RandomFactors == {8, 11}

\* the square of the offset of lines 1071-1073 and 1128, in 1/62500 of a square
\* pixel (the distance is a square root; its square is exact), for dx, dy in
\* half pixels and the random factor in tenths
OffsetSquared(dx, dy, randomFactor, sameSideConnection) ==
    LET base == Min(dx * dx + dy * dy, 300 * 300)       \* 25 * baseOffset^2
        offset == base * randomFactor * randomFactor    \* 2500 * offset^2
    IN IF sameSideConnection THEN Min(offset * 36, 40 * 40 * 62500) ELSE offset * 25

\* the direction of lines 1109-1132; coin is Math.random() > 0.5
Direction(fromSide, toSide, coin) ==
    IF fromSide = toSide /\ fromSide \in {"right", "bottom"} THEN 1
    ELSE IF fromSide = toSide /\ fromSide \in {"left", "top"} THEN -1
    ELSE IF coin THEN 1 ELSE -1

\* the central control point of lines 1134-1148: the midpoint of the anchors
\* (kept as their sum) moved along one axis by direction * offset
MidControl(fromAnchor, toAnchor, direction, offset2) ==
    [sum |-> Pt(fromAnchor.x + toAnchor.x, fromAnchor.y + toAnchor.y),
     axis |-> IF Abs(toAnchor.x - fromAnchor.x) > Abs(toAnchor.y - fromAnchor.y)
              THEN "y" ELSE "x",
     direction |-> direction,
     offset2 |-> offset2]
NoMid == [sum |-> Pt(0, 0), axis |-> "none", direction |-> 0, offset2 |-> 0]

\* (the curve led through the central control point)
CurveDataThroughMid(fromAnchor, cp, mid, adjustedEndPoint) ==
    <<fromAnchor, cp.fromControl, mid, cp.toControl, adjustedEndPoint>>

\* the path data of the cubic curve (lines 1153-1157)
CurveData(fromAnchor, cp, mid, adjustedEndPoint) ==
    <<fromAnchor, cp.fromControl, cp.toControl, adjustedEndPoint>>

\* (the straight-line midpoint of the end points)
StraightMidpoint(p0, p1, p2, p3) == Pt(4 * (p0.x + p3.x), 4 * (p0.y + p3.y))

\* the point of the cubic curve at t = 0.5 (lines 1161-1174), in sixteenths of
\* a pixel: (p0 + 3 p1 + 3 p2 + p3) / 8
BezierHalf(p0, p1, p2, p3) ==
    Pt(p0.x + 3 * p1.x + 3 * p2.x + p3.x, p0.y + 3 * p1.y + 3 * p2.y + p3.y)

\* the tests of lines 1084 and 1094: the anchors aligned and dominant on one
\* axis, and the sides not the same
IsPolyline(aligned, fromSide, toSide) == aligned /\ ~(fromSide = toSide)

\* drawEdge from line 1060 to line 1189, both nodes found: the path appended,
\* its label point (in sixteenths of a pixel) and the locals of the call
DrawnPath(edge, fromNode, toNode, randomFactor, coin) ==
    LET fromSide == SideOr(edge.fromSide, "right")
        toSide == SideOr(edge.toSide, "left")
        fromAnchor == CalculateAnchorPoint(fromNode, toNode, fromSide, FALSE)
        toAnchor == CalculateAnchorPoint(toNode, fromNode, toSide, TRUE)
        dx == toAnchor.x - fromAnchor.x
        dy == toAnchor.y - fromAnchor.y
        isHorizontalPerfect == Abs(fromAnchor.y - toAnchor.y) < Half(1)
        isHorizontalConnection == Abs(dx) > Abs(dy) * 3
        isVerticalPerfect == Abs(fromAnchor.x - toAnchor.x) < Half(1)
        isVerticalConnection == Abs(dy) > Abs(dx) * 3
        sameSideConnection == fromSide = toSide
        cp == CreatePerpendicularControlPoints(fromAnchor, toAnchor, fromSide, toSide)
        adjustedEndPoint == AdjustArrowEndPoint(toAnchor, toSide)
        mid == MidControl(fromAnchor, toAnchor, Direction(fromSide, toSide, coin),
                          OffsetSquared(dx, dy, randomFactor, sameSideConnection))
    IN IF IsPolyline(isHorizontalPerfect /\ isHorizontalConnection, fromSide, toSide)
       THEN [shape |-> "L", d |-> <<fromAnchor, cp.fromControl, cp.toControl, toAnchor>>,
             label |-> Pt(4 * (fromAnchor.x + toAnchor.x), 8 * fromAnchor.y),
             mid |-> NoMid]
       ELSE IF IsPolyline(isVerticalPerfect /\ isVerticalConnection, fromSide, toSide)
       THEN [shape |-> "L", d |-> <<fromAnchor, cp.fromControl, cp.toControl, toAnchor>>,
             label |-> Pt(8 * fromAnchor.x, 4 * (fromAnchor.y + toAnchor.y)),
             mid |-> NoMid]
       ELSE [shape |-> "C", d |-> CurveData(fromAnchor, cp, mid, adjustedEndPoint),
             label |-> BezierHalf(fromAnchor, cp.fromControl, cp.toControl, adjustedEndPoint),
             mid |-> mid]

(***************************************************************************)
(* The viewer's zoom and scroll (lines 891-1042 and 1427-1521).  A zoom     *)
(* factor and a scroll offset are exact rationals <<numerator,              *)
(* denominator>> in lowest terms with a positive denominator; the factors   *)
(* 1.2, 0.9, 1.1, 0.1 and 0.05 of the code are 6/5, 9/10, 11/10, 1/10 and   *)
(* 1/20.                                                                    *)
(***************************************************************************)
Q(n, d) ==
    LET g == Gcd(n, d)
        sg == IF d < 0 THEN -1 ELSE 1
    IN <<sg * (n \div g), sg * (d \div g)>>
QInt(n) == <<n, 1>>
QNeg(a) == <<-a[1], a[2]>>
QAdd(a, b) ==
    LET g == Gcd(a[2], b[2])
    IN Q(a[1] * (b[2] \div g) + b[1] * (a[2] \div g), (a[2] \div g) * b[2])
QSub(a, b) == QAdd(a, QNeg(b))
QMul(a, b) ==
    LET g1 == Gcd(a[1], b[2])
        g2 == Gcd(b[1], a[2])
    IN Q((a[1] \div g1) * (b[1] \div g2), (a[2] \div g2) * (b[2] \div g1))
QDiv(a, b) == QMul(a, Q(b[2], b[1]))
QLe(a, b) ==
    LET g == Gcd(a[2], b[2])
    IN a[1] * (b[2] \div g) <= b[1] * (a[2] \div g)
QLt(a, b) == ~QLe(b, a)
QMin(a, b) == IF QLe(a, b) THEN a ELSE b
QMax(a, b) == IF QLe(b, a) THEN a ELSE b
QAbs(a) == <<Abs(a[1]), a[2]>>
QPt(x, y) == [x |-> x, y |-> y]

\* the container starts 50 pixels below the top of the window, at its left edge
\* (lines 263-268)
ContainerTop == 50
ContainerLeft == 0

\* the bounding box of this.nodes (lines 930-935 and 1456-1462)
ContentBox(nodes) ==
    [minX |-> SetMin({nodes[i].x : i \in DOMAIN nodes}),
     maxX |-> SetMax({nodes[i].x + nodes[i].width : i \in DOMAIN nodes}),
     minY |-> SetMin({nodes[i].y : i \in DOMAIN nodes}),
     maxY |-> SetMax({nodes[i].y + nodes[i].height : i \in DOMAIN nodes})]

\* the fit without the margin of 100 pixels
CalculateMinZoomNoMargin(nodes, v) ==
    IF nodes = <<>> THEN Q(1, 10)
    ELSE LET b == ContentBox(nodes)
         IN QMax(QMin(QMin(Q(v.w, b.maxX - b.minX), Q(v.h, b.maxY - b.minY)), QInt(1)),
                 Q(1, 10))

\* calculateMinZoom (lines 1453-1470); with no node the content width is
\* -Infinity, both scales are -0 and the result is 0.1
CalculateMinZoom(nodes, v) ==
    IF nodes = <<>> THEN Q(1, 10)
    ELSE LET b == ContentBox(nodes)
             contentWidth == b.maxX - b.minX
             contentHeight == b.maxY - b.minY
             margin_ == 100
             scaleX == Q(v.w - margin_, contentWidth)
             scaleY == Q(v.h - margin_, contentHeight)
             optimal == QMin(QMin(scaleX, scaleY), QInt(1))
         IN QMax(optimal, Q(1, 10))

\* what the container can scroll to: the canvas (lines 292-296) and its node
\* boxes, scaled by the zoom about the top left corner (lines 1477-1478), less
\* the container's own size; an assignment to scrollLeft or scrollTop outside
\* this range is stored as the nearest value inside it
ScrollMax(nodes, canvas, v, z) ==
    LET right == SetMax({canvas.width} \cup {nodes[i].x + nodes[i].width : i \in DOMAIN nodes})
        bottom == SetMax({canvas.height} \cup {nodes[i].y + nodes[i].height : i \in DOMAIN nodes})
    IN QPt(QMax(QInt(0), QSub(QMul(QInt(right), z), QInt(v.w))),
           QMax(QInt(0), QSub(QMul(QInt(bottom), z), QInt(v.h))))

SetScroll(s, nodes, canvas, v, z) ==
    LET m == ScrollMax(nodes, canvas, v, z)
    IN QPt(QMax(QInt(0), QMin(s.x, m.x)), QMax(QInt(0), QMin(s.y, m.y)))

\* canvas.getBoundingClientRect(): the canvas is the container's content, with
\* its transform origin at the top left
CanvasRect(s) ==
    [left |-> QSub(QInt(ContainerLeft), s.x), top |-> QSub(QInt(ContainerTop), s.y)]

\* applyZoom (lines 1476-1498): the optimal zoom kept and the scroll-enabled class
ApplyZoom(z, opt) ==
    LET opt2 == IF opt = QInt(1) THEN z ELSE opt
        isOptimal == QLt(QAbs(QSub(z, opt2)), Q(1, 20))
    IN [optimalZoom |-> opt2, scrollEnabled |-> ~isOptimal]

\* the relativeX, relativeY of handleWheel, zoomIn and zoomOut (lines 1033-1034,
\* 1433-1434, 1447-1448)
RelativePoint(mouse, z, s) ==
    LET canvasRect == CanvasRect(s)
    IN QPt(QAdd(QDiv(QSub(mouse.x, canvasRect.left), z), QDiv(s.x, z)),
           QAdd(QDiv(QSub(mouse.y, canvasRect.top), z), QDiv(s.y, z)))

\* applyZoomWithMouseFocus (lines 1500-1521): the offsets it assigns
FocusScroll(relative, oldZoom, newZoom, s) ==
    LET mouseX == QSub(QMul(relative.x, oldZoom), s.x)
        mouseY == QSub(QMul(relative.y, oldZoom), s.y)
    IN QPt(QSub(QMul(relative.x, newZoom), mouseX),
           QSub(QMul(relative.y, newZoom), mouseY))

\* this.lastMouseX || clientWidth / 2, this.lastMouseY || clientHeight / 2
\* (lines 1430-1431, 1444-1445); 0 and undefined both fall back
MouseOrCentre(m, v) ==
    QPt(IF m.set /\ m.x # 0 THEN QInt(m.x) ELSE Q(v.w, 2),
        IF m.set /\ m.y # 0 THEN QInt(m.y) ELSE Q(v.h, 2))

(***************************************************************************)
(* SpecMarkup: generate_html renders one node text.                         *)
(***************************************************************************)
MaxLines == 3       \* lines of a node text
MaxHashes == 7      \* longest run of # that starts a line

\* the lines a node text is made of
CoreLines ==
    { <<>>,                                 \* a blank line
      <<"x">>,                              \* prose
      <<"-", " ", "a">>,                    \* a bullet
      Fence \o <<"p", "y">>,                \* a fence marker with a language tag
      Fence,                                \* a bare fence marker
      <<"*", "*", "b", "*", "*">> }         \* a bold span
HeadingLines ==
    {HeadingPrefix(k) \o <<"Z">> : k \in 1..MaxHashes} \cup {<<"#", " ">>}
SpecialLines == HeadingLines
Lines == CoreLines \cup SpecialLines

\* node texts: up to MaxLines lines, at most one of them special
LineSeqs ==
    {ls \in UNION {[1..n -> Lines] : n \in 1..MaxLines} :
        Cardinality({i \in DOMAIN ls : ls[i] \in SpecialLines}) <= 1}
Texts == {Join(ls, NL) : ls \in LineSeqs}

MarkupIdle == mText = <<>> /\ mHtml = <<>> /\ mPc = "idle"
LayoutIdle ==
    /\ lNodes = <<>> /\ lMain = <<>> /\ lExtent = <<>> /\ lBoxes = <<>> /\ lPc = "idle"
    /\ lExported = "none"
EdgeIdle ==
    /\ eNodes = <<>> /\ eEdges = <<>> /\ eLayer = <<>> /\ eNext = 0
    /\ eLabels = <<>> /\ eLog = <<>> /\ eDraw = <<>>
HighlightIdle ==
    /\ hNow = 0 /\ hShadow = <<>> /\ hTimers = <<>> /\ hLast = <<>> /\ hCalls = 0
ImageIdle == iFile = <<>> /\ iHtml = <<>> /\ iPc = "idle"
SearchIdle == sContents = <<>> /\ sQuery = <<>> /\ sResults = <<>>
ViewerIdle ==
    /\ vNodes = <<>> /\ vCanvas = <<>> /\ vp = <<>> /\ zoom = <<>> /\ optimalZoom = <<>>
    /\ scroll = <<>> /\ lastMouse = <<>> /\ isPanning = FALSE /\ panStart = <<>>
    /\ scrollStart = <<>> /\ scrollEnabled = FALSE /\ lastOp = "idle" /\ focus = <<>>
    /\ ops = 0 /\ fitZoom = <<>>

MarkupInit ==
    /\ mText \in Texts /\ mHtml = <<>> /\ mPc = "ready"
    /\ LayoutIdle /\ EdgeIdle /\ ViewerIdle /\ SearchIdle /\ HighlightIdle /\ ImageIdle

\* generate_html renders the node's content (lines 750-832)
RenderNode ==
    /\ mPc = "ready"
    /\ mHtml' = RenderContent(mText)
    /\ mPc' = "done"
    /\ UNCHANGED <<mText, layoutVars, edgeVars, viewerVars, searchVars,
                   highlightVars, imageVars>>

MarkupNext == RenderNode
SpecMarkup == MarkupInit /\ [][MarkupNext]_vars

\* node texts of list items and one-line code regions: up to MaxLines lines
InlineRegion == Fence \o <<"a", "b", "c">> \o Fence
ListLines ==
    { <<"1", ".", " ", "a">>,               \* an ordered item
      <<"2", ".", " ", "b">>,               \* another
      <<"-", " ", "a">>,                    \* a - bullet
      <<"*", " ", "c">>,                    \* a * bullet
      <<"x">>,                              \* prose
      <<>>,                                 \* a blank line
      InlineRegion,                         \* a code region opened and closed on one line
      <<"*", "*", "*", "x", "*", "*", "*">> }   \* a span marked bold and italic
ListTexts == {Join(ls, NL) : ls \in UNION {[1..n -> ListLines] : n \in 1..MaxLines}}

MarkupListInit ==
    /\ mText \in ListTexts /\ mHtml = <<>> /\ mPc = "ready"
    /\ LayoutIdle /\ EdgeIdle /\ ViewerIdle /\ SearchIdle /\ HighlightIdle /\ ImageIdle

SpecMarkupLists == MarkupListInit /\ [][MarkupNext]_vars

(***************************************************************************)
(* SpecLayout: generate_html lays a document out.                           *)
(***************************************************************************)
MaxNodes == 4       \* nodes of a document

Rect(x, y, w, h) == [x |-> x, y |-> y, width |-> w, height |-> h]

\* the nodes a document is made of: a row, a far node on the row, a far node
\* below, a small node at negative coordinates, a node off the row
Rects ==
    { Rect(0, 0, 200, 100), Rect(400, 0, 200, 100), Rect(800, 0, 200, 100),
      Rect(3000, 0, 200, 100), Rect(0, 1800, 200, 100),
      Rect(-300, -200, 100, 50), Rect(400, 300, 250, 60) }

\* the distances of the nodes from their centre of mass are all rational
RationalDistances(nodes) == \A i \in DOMAIN nodes : IsSquare(Distance2(nodes, i))

\* documents: up to MaxNodes nodes; where the filter compares distances (more
\* than 2 nodes) the distances are rational, so that the model decides the
\* comparison exactly
NodeLists ==
    {ns \in UNION {[1..n -> Rects] : n \in 0..MaxNodes} :
        Len(ns) <= 2 \/ RationalDistances(ns)}

\* a node without one of its fields, and a group node (of a colour, or of none)
Without(node, field) == [f \in DOMAIN node \ {field} |-> node[f]]
Group(node) == node @@ [type |-> "group"]
Colored(node, color) == node @@ [color |-> color]

Colors == { <<"#", "f", "f", "f">>, <<"#", "f", "f", "6", "b", "6", "b">>, <<"1">> }

AnomalousNodes ==
    {Without(Rect(400, 0, 200, 100), field) : field \in {"x", "y", "width", "height"}}
        \cup {Colored(Group(Rect(400, 0, 200, 100)), color) : color \in Colors}
        \cup {Group(Rect(400, 0, 200, 100)), Colored(Rect(400, 0, 200, 100), <<"#", "f", "f", "f">>)}

\* documents of one or two nodes, one of them anomalous
AnomalousLists ==
    LET plain == {Rect(0, 0, 200, 100), Rect(-300, -200, 100, 50)}
    IN {<<a>> : a \in AnomalousNodes}
           \cup {<<a, b>> : a \in AnomalousNodes, b \in plain \cup AnomalousNodes}
           \cup {<<b, a>> : a \in AnomalousNodes, b \in plain}

LayoutInit ==
    /\ lNodes \in NodeLists \cup AnomalousLists
    /\ lMain = <<>> /\ lExtent = <<>> /\ lBoxes = <<>>
    /\ lPc = "ready" /\ lExported = "none"
    /\ MarkupIdle /\ EdgeIdle /\ ViewerIdle /\ SearchIdle /\ HighlightIdle /\ ImageIdle

\* export_to_web (lines 1599-1620): generate_html computes the extent and
\* emits the node boxes (lines 188-219, 742-748); when it raises, the
\* exception is caught, no page is written and the export returns False
LayoutNodes ==
    /\ lPc = "ready"
    /\ IF GenerateHtmlRaises(lNodes)
       THEN /\ lMain' = <<>> /\ lExtent' = <<>> /\ lBoxes' = <<>>
            /\ lPc' = "raised"
            /\ lExported' = "false"
       ELSE /\ lMain' = (IF lNodes # <<>> THEN FilterMainNodes(lNodes) ELSE <<>>)
            /\ lExtent' = Extent(lNodes, lMain')
            /\ lBoxes' = LET emitted == EmittedNodes(lNodes, lMain')
                         IN [k \in DOMAIN emitted |->
                                NodeBox(lNodes[emitted[k]], emitted[k] - 1, lExtent')]
            /\ lPc' = "done"
            /\ lExported' = "true"
    /\ UNCHANGED <<lNodes, markupVars, edgeVars, viewerVars, searchVars,
                   highlightVars, imageVars>>

LayoutNext == LayoutNodes
SpecLayout == LayoutInit /\ [][LayoutNext]_vars

(***************************************************************************)
(* SpecEdge: drawEdges draws the document's edges.                          *)
(***************************************************************************)
MaxEdges == 2       \* edges of a document

\* pairs of node rectangles: the pair of the specification's example, the same
\* centre line with other sizes, odd sizes, B 30 to the right of A's border, B
\* below A, B on a diagonal, B left of A, B's top anchor level with A's centre,
\* B's centre half a pixel below A's
RectPairs ==
    { <<Rect(0, 0, 100, 50), Rect(300, 0, 100, 50)>>,
      <<Rect(0, 0, 100, 50), Rect(300, 10, 160, 30)>>,
      <<Rect(-40, 6, 101, 51), Rect(250, 0, 75, 63)>>,
      <<Rect(0, 0, 100, 50), Rect(130, 0, 100, 50)>>,
      <<Rect(0, 0, 100, 50), Rect(0, 200, 100, 50)>>,
      <<Rect(0, 0, 100, 50), Rect(300, 200, 100, 50)>>,
      <<Rect(300, 0, 100, 50), Rect(0, 0, 100, 50)>>,
      <<Rect(0, 0, 100, 50), Rect(300, 55, 100, 50)>>,
      <<Rect(0, 0, 100, 50), Rect(300, 0, 100, 51)>> }

\* an edge of the document; an edge without a label has the empty label
NoLabel == <<>>
Edge(f, t, fs, ts) ==
    [fromNode |-> f, toNode |-> t, fromSide |-> fs, toSide |-> ts, label |-> NoLabel]
Labelled(edge, text) == [edge EXCEPT !.label = text]

\* the edges a document is made of
EdgeMenu ==
    { Edge("A", "B", "right", "left"), Edge("B", "A", "left", "right"),
      Edge("A", "B", "bottom", "top"), Edge("A", "B", "left", "right"),
      Edge("A", "B", NoSide, NoSide), Edge("B", "A", NoSide, NoSide),
      Edge("A", "B", "right", "right"), Edge("A", "B", "right", "top"),
      Edge("A", "X", "right", "left"),
      Labelled(Edge("A", "B", "right", "left"), <<"o", "k">>),
      Labelled(Edge("X", "A", "top", "bottom"), <<"n", "o">>) }
EdgeLists == UNION {[1..n -> EdgeMenu] : n \in 1..MaxEdges}

EdgeInit ==
    /\ \E rp \in RectPairs : eNodes = [id \in {"A", "B"} |-> IF id = "A" THEN rp[1] ELSE rp[2]]
    /\ eEdges \in EdgeLists
    /\ eLayer = <<>> /\ eLabels = <<>> /\ eLog = <<>> /\ eDraw = <<>>
    /\ eNext = 1
    /\ MarkupIdle /\ LayoutIdle /\ ViewerIdle /\ SearchIdle /\ HighlightIdle /\ ImageIdle

\* (only the node A is ever found)
NodeFoundOnlyA(nodes, id) == id = "A"

\* this.nodes.find(n => n.id === id) finds a node (lines 1052-1053)
NodeFound(nodes, id) == id \in DOMAIN nodes

\* what getBBox can measure for a label text (line 1207): nothing yet, or a box
BBoxes == {[x |-> 0, y |-> 0, width |-> 0, height |-> 0],
           [x |-> 180, y |-> 14, width |-> 20, height |-> 14]}

\* (the background without its padding)
BackgroundRectNoPadding(lab, bbox) ==
    IF bbox.width > 0 /\ bbox.height > 0
    THEN [kind |-> "measured", x |-> 16 * bbox.x, y |-> 16 * bbox.y,
          width |-> 16 * bbox.width, height |-> 16 * bbox.height]
    ELSE [kind |-> "estimated", x |-> lab.at.x - 64 * Len(lab.text), y |-> lab.at.y - 128,
          width |-> 128 * Len(lab.text), height |-> 256]

\* the background rectangle of a label (lines 1208-1238), in sixteenths of a pixel
BackgroundRect(lab, bbox) ==
    LET padding == 6
        defaultWidth == Len(lab.text) * 8
        defaultHeight == 16
    IN IF bbox.width > 0 /\ bbox.height > 0
       THEN [kind |-> "measured",
             x |-> 16 * (bbox.x - padding), y |-> 16 * (bbox.y - padding),
             width |-> 16 * (bbox.width + padding * 2),
             height |-> 16 * (bbox.height + padding * 2)]
       ELSE [kind |-> "estimated",
             x |-> lab.at.x - 8 * defaultWidth - 16 * padding,
             y |-> lab.at.y - 8 * defaultHeight - 16 * padding,
             width |-> 16 * (defaultWidth + padding * 2),
             height |-> 16 * (defaultHeight + padding * 2)]
NoRect == [kind |-> "pending", x |-> 0, y |-> 0, width |-> 0, height |-> 0]
NoBBox == [x |-> 0, y |-> 0, width |-> -1, height |-> -1]

\* labelGroup.insertBefore(backgroundRect, textElement) on the children of the group
InsertBefore(children, new, ref) ==
    LET k == CHOOSE i \in DOMAIN children : children[i] = ref
    IN SubSeq(children, 1, k - 1) \o <<new>> \o SubSeq(children, k, Len(children))

\* one turn of drawEdges' forEach (lines 1046-1048): drawEdge (lines 1051-1247)
DrawEdge ==
    /\ eNext \in DOMAIN eEdges
    /\ LET edge == eEdges[eNext] IN
       IF ~NodeFound(eNodes, edge.fromNode) \/ ~NodeFound(eNodes, edge.toNode)
       THEN /\ eLog' = Append(eLog, eNext)
            /\ eDraw' = <<>>
            /\ UNCHANGED <<eLayer, eLabels>>
       ELSE \E randomFactor \in RandomFactors, coin \in BOOLEAN :
            LET path == DrawnPath(edge, eNodes[edge.fromNode], eNodes[edge.toNode],
                                  randomFactor, coin) IN
            /\ eLayer' = Append(eLayer, [edge |-> eNext, shape |-> path.shape, d |-> path.d,
                                         label |-> path.label])
            /\ eLabels' = (IF edge.label # NoLabel
                           THEN Append(eLabels, [edge |-> eNext, text |-> edge.label,
                                                 at |-> path.label, rect |-> NoRect,
                                                 bbox |-> NoBBox, children |-> <<"text">>])
                           ELSE eLabels)
            /\ eDraw' = [mid |-> path.mid]
            /\ eLog' = eLog
    /\ eNext' = eNext + 1
    /\ UNCHANGED <<eNodes, eEdges, markupVars, layoutVars, viewerVars, searchVars,
                   highlightVars, imageVars>>

\* the timer a label set (lines 1205-1243) fires, after the draw pass and in the
\* order the timers were set: it inserts the background before the text
LabelBackground ==
    /\ eNext > Len(eEdges)
    /\ \E k \in DOMAIN eLabels, bbox \in BBoxes :
        /\ eLabels[k].rect = NoRect
        /\ \A j \in 1..(k - 1) : eLabels[j].rect # NoRect
        /\ eLabels' = [eLabels EXCEPT ![k].rect = BackgroundRect(eLabels[k], bbox),
                                      ![k].bbox = bbox,
                                      ![k].children = InsertBefore(@, "rect", "text")]
    /\ UNCHANGED <<eNodes, eEdges, eLayer, eNext, eLog, eDraw>>
    /\ UNCHANGED <<markupVars, layoutVars, viewerVars, searchVars,
                   highlightVars, imageVars>>

EdgeNext == DrawEdge \/ LabelBackground
SpecEdge == EdgeInit /\ [][EdgeNext]_vars

\* documents for the labels: edges with and without a label, one label on an
\* edge whose node is missing, between two pairs of rectangles
LabelEdgeMenu ==
    { Edge("A", "B", "right", "left"),
      Labelled(Edge("A", "B", "right", "left"), <<"o", "k">>),
      Labelled(Edge("A", "B", "right", "right"), <<"a", "b", "c">>),
      Labelled(Edge("X", "A", "top", "bottom"), <<"n", "o">>) }
LabelRectPairs ==
    { <<Rect(0, 0, 100, 50), Rect(300, 0, 100, 50)>>,
      <<Rect(0, 0, 100, 50), Rect(300, 200, 100, 50)>> }

EdgeLabelInit ==
    /\ \E rp \in LabelRectPairs :
          eNodes = [id \in {"A", "B"} |-> IF id = "A" THEN rp[1] ELSE rp[2]]
    /\ eEdges \in UNION {[1..n -> LabelEdgeMenu] : n \in 1..MaxEdges}
    /\ eLayer = <<>> /\ eLabels = <<>> /\ eLog = <<>> /\ eDraw = <<>>
    /\ eNext = 1
    /\ MarkupIdle /\ LayoutIdle /\ ViewerIdle /\ SearchIdle /\ HighlightIdle /\ ImageIdle

\* the forEach of drawEdges runs to its end, and a timer that was set fires
SpecEdgeLabels ==
    EdgeLabelInit /\ [][EdgeNext]_vars /\ WF_vars(DrawEdge) /\ WF_vars(LabelBackground)

(***************************************************************************)
(* SpecViewer: the page is loaded in a window and the user zooms, pans and  *)
(* resizes the window.                                                      *)
(***************************************************************************)
MaxOps == 2         \* handlers run after the load

\* the documents loaded: none, one node, two nodes, one square node
ViewerDocs ==
    { <<>>,
      <<Rect(0, 0, 1000, 500)>>,
      <<Rect(100, 50, 200, 100), Rect(900, 450, 200, 100)>>,
      <<Rect(0, 0, 400, 400)>> }

\* the sizes of the container: the window less the 50 pixels of the toolbar
Viewports == {[w |-> 600, h |-> 350], [w |-> 1100, h |-> 600], [w |-> 350, h |-> 225]}

\* where mouse events happen, in window coordinates
MousePoints == {Pt(200, 150), Pt(450, 300)}

NoMouse == [set |-> FALSE, x |-> 0, y |-> 0]
QZero == QPt(QInt(0), QInt(0))
NoFocus == [pt |-> QZero, zoom |-> QInt(1), scroll |-> QZero]
ZoomOps == {"zoomIn", "zoomOut", "wheel"}

\* the node elements of the page as loadCanvasData reads them (lines 909-921)
LoadNodes(doc) ==
    LET extent == Extent(doc, IF doc # <<>> THEN FilterMainNodes(doc) ELSE <<>>)
    IN [i \in DOMAIN doc |->
            LET box == NodeBox(doc[i], i - 1, extent)
            IN Rect(box.left, box.top, box.width, box.height)]

LoadCanvas(doc) ==
    LET extent == Extent(doc, IF doc # <<>> THEN FilterMainNodes(doc) ELSE <<>>)
    IN [width |-> extent.canvas_width, height |-> extent.canvas_height]

\* centerView (lines 928-962): the zoom, optimal zoom, class and offsets it
\* leaves, given those it finds
CenterViewResult(nodes, canvas, v, z, opt, se, s) ==
    IF nodes = <<>>
    THEN [zoom |-> z, optimalZoom |-> opt, scrollEnabled |-> se, scroll |-> s]
    ELSE LET b == ContentBox(nodes)
             finalZoom == CalculateMinZoom(nodes, v)
             a == ApplyZoom(finalZoom, finalZoom)
             centerX == Q(b.minX + b.maxX, 2)
             centerY == Q(b.minY + b.maxY, 2)
             finalScrollLeft == QSub(QMul(centerX, finalZoom), Q(v.w, 2))
             finalScrollTop == QSub(QMul(centerY, finalZoom), Q(v.h, 2))
         IN [zoom |-> finalZoom, optimalZoom |-> a.optimalZoom,
             scrollEnabled |-> a.scrollEnabled,
             scroll |-> SetScroll(QPt(finalScrollLeft, finalScrollTop), nodes, canvas, v,
                                  finalZoom)]

\* the constructor (lines 891-900) and init (lines 902-907)
ViewerInit ==
    /\ \E doc \in ViewerDocs : vNodes = LoadNodes(doc) /\ vCanvas = LoadCanvas(doc)
    /\ vp \in Viewports
    /\ LET c == CenterViewResult(vNodes, vCanvas, vp, QInt(1), QInt(1), FALSE, QZero)
       IN /\ zoom = c.zoom
          /\ optimalZoom = c.optimalZoom
          /\ scrollEnabled = c.scrollEnabled
          /\ scroll = c.scroll
          /\ fitZoom = c.zoom
    /\ lastMouse = NoMouse
    /\ isPanning = FALSE
    /\ panStart = Pt(0, 0)
    /\ scrollStart = QZero
    /\ lastOp = "load"
    /\ focus = NoFocus
    /\ ops = 0
    /\ MarkupIdle /\ LayoutIdle /\ EdgeIdle /\ SearchIdle /\ HighlightIdle /\ ImageIdle

Step(op) == ops < MaxOps /\ ops' = ops + 1 /\ lastOp' = op

\* the zoom, class and offsets a zoom at the pointer leaves (applyZoomWithMouseFocus)
ZoomAt(mouse, newZoom) ==
    LET relative == RelativePoint(mouse, zoom, scroll)
        a == ApplyZoom(newZoom, optimalZoom)
    IN /\ zoom' = newZoom
       /\ optimalZoom' = a.optimalZoom
       /\ scrollEnabled' = a.scrollEnabled
       /\ scroll' = SetScroll(FocusScroll(relative, zoom, newZoom, scroll), vNodes, vCanvas,
                              vp, newZoom)
       /\ focus' = [pt |-> mouse, zoom |-> zoom, scroll |-> scroll]

\* zoomIn (lines 1427-1437)
ZoomIn ==
    /\ Step("zoomIn")
    /\ ZoomAt(MouseOrCentre(lastMouse, vp), QMin(QMul(zoom, Q(6, 5)), QInt(3)))
    /\ UNCHANGED <<vNodes, vCanvas, vp, lastMouse, isPanning, panStart, scrollStart, fitZoom>>
    /\ UNCHANGED <<markupVars, layoutVars, edgeVars, searchVars,
                   highlightVars, imageVars>>

\* zoomOut (lines 1439-1451)
ZoomOut ==
    /\ Step("zoomOut")
    /\ ZoomAt(MouseOrCentre(lastMouse, vp),
              QMax(CalculateMinZoom(vNodes, vp), QDiv(zoom, Q(6, 5))))
    /\ UNCHANGED <<vNodes, vCanvas, vp, lastMouse, isPanning, panStart, scrollStart, fitZoom>>
    /\ UNCHANGED <<markupVars, layoutVars, edgeVars, searchVars,
                   highlightVars, imageVars>>

\* zoomReset (lines 1472-1474)
ZoomReset ==
    /\ Step("zoomReset")
    /\ LET c == CenterViewResult(vNodes, vCanvas, vp, zoom, optimalZoom, scrollEnabled, scroll)
       IN /\ zoom' = c.zoom
          /\ optimalZoom' = c.optimalZoom
          /\ scrollEnabled' = c.scrollEnabled
          /\ scroll' = c.scroll
          /\ fitZoom' = c.zoom
    /\ focus' = NoFocus
    /\ UNCHANGED <<vNodes, vCanvas, vp, lastMouse, isPanning, panStart, scrollStart>>
    /\ UNCHANGED <<markupVars, layoutVars, edgeVars, searchVars,
                   highlightVars, imageVars>>

\* handleWheel (lines 1027-1042) with the Ctrl or Meta key held
HandleWheel ==
    \E pt \in MousePoints, deltaYPositive \in BOOLEAN :
        /\ Step("wheel")
        /\ ZoomAt(QPt(QInt(pt.x), QInt(pt.y)),
                  QMax(CalculateMinZoom(vNodes, vp),
                       QMin(QInt(3),
                            QMul(zoom, IF deltaYPositive THEN Q(9, 10) ELSE Q(11, 10)))))
        /\ UNCHANGED <<vNodes, vCanvas, vp, lastMouse, isPanning, panStart, scrollStart, fitZoom>>
        /\ UNCHANGED <<markupVars, layoutVars, edgeVars, searchVars,
                       highlightVars, imageVars>>

\* mousedown on the container (lines 979-981): startPanning (lines 1003-1010)
MouseDown ==
    \E pt \in MousePoints, onNode \in BOOLEAN :
        /\ Step("mousedown")
        /\ IF onNode
           THEN UNCHANGED <<isPanning, panStart, scrollStart>>
           ELSE isPanning' = TRUE /\ panStart' = pt /\ scrollStart' = scroll
        /\ focus' = NoFocus
        /\ UNCHANGED <<vNodes, vCanvas, vp, zoom, optimalZoom, scroll, lastMouse, scrollEnabled,
                       fitZoom>>
        /\ UNCHANGED <<markupVars, layoutVars, edgeVars, searchVars,
                       highlightVars, imageVars>>

\* mousemove on the container: pan (lines 1012-1020), then the listener that
\* keeps the pointer (lines 995-998)
MouseMove ==
    \E pt \in MousePoints :
        /\ Step("mousemove")
        /\ IF isPanning
           THEN scroll' = SetScroll(QPt(QSub(scrollStart.x, QInt(pt.x - panStart.x)),
                                        QSub(scrollStart.y, QInt(pt.y - panStart.y))),
                                    vNodes, vCanvas, vp, zoom)
           ELSE scroll' = scroll
        /\ lastMouse' = [set |-> TRUE, x |-> pt.x, y |-> pt.y]
        /\ focus' = NoFocus
        /\ UNCHANGED <<vNodes, vCanvas, vp, zoom, optimalZoom, isPanning, panStart, scrollStart,
                       scrollEnabled, fitZoom>>
        /\ UNCHANGED <<markupVars, layoutVars, edgeVars, searchVars,
                       highlightVars, imageVars>>

\* mouseup on the container (lines 987-989): stopPanning (lines 1022-1025)
MouseUp ==
    /\ Step("mouseup")
    /\ isPanning' = FALSE
    /\ focus' = NoFocus
    /\ UNCHANGED <<vNodes, vCanvas, vp, zoom, optimalZoom, scroll, lastMouse, panStart,
                   scrollStart, scrollEnabled, fitZoom>>
    /\ UNCHANGED <<markupVars, layoutVars, edgeVars, searchVars,
                   highlightVars, imageVars>>

\* the window is resized: the page listens to no resize event, so only the
\* container's size and the range of its scroll offsets change
Resize ==
    \E v \in Viewports \ {vp} :
        /\ Step("resize")
        /\ vp' = v
        /\ scroll' = SetScroll(scroll, vNodes, vCanvas, v, zoom)
        /\ focus' = NoFocus
        /\ UNCHANGED <<vNodes, vCanvas, zoom, optimalZoom, lastMouse, isPanning, panStart,
                       scrollStart, scrollEnabled, fitZoom>>
        /\ UNCHANGED <<markupVars, layoutVars, edgeVars, searchVars,
                       highlightVars, imageVars>>

ViewerNext ==
    \/ ZoomIn \/ ZoomOut \/ ZoomReset \/ HandleWheel
    \/ MouseDown \/ MouseMove \/ MouseUp \/ Resize
SpecViewer == ViewerInit /\ [][ViewerNext]_vars

(***************************************************************************)
(* SpecSearch: the search box of the page (lines 977-978, 1370-1393).       *)
(***************************************************************************)
MaxContents == 2    \* nodes of a searched page

\* String.prototype.toLowerCase over the letters of the model
ToLowerCase(s) ==
    [i \in DOMAIN s |-> CASE s[i] = "A" -> "a" [] s[i] = "B" -> "b" [] OTHER -> s[i]]

\* String.prototype.includes
Includes(s, q) == \E i \in 0..(Len(s) - Len(q)) : SubSeq(s, i + 1, i + Len(q)) = q

\* results.innerHTML = '' (line 1372)
KeptResults(results) == results
ClearedResults(results) == <<>>

RECURSIVE MatchingNodes(_, _, _)
\* this.nodes.filter(...) of lines 1376-1379, from node i on, as positions
MatchingNodes(contents, query, i) ==
    IF i > Len(contents) THEN <<>>
    ELSE (IF Includes(ToLowerCase(contents[i]), ToLowerCase(query)) THEN <<i>> ELSE <<>>)
             \o MatchingNodes(contents, query, i + 1)

\* the entry of a matching node (lines 1382-1391): its text, cut at 50, and dots
ResultEl(contents, i) ==
    [node |-> i,
     textContent |-> SubSeq(contents[i], 1, Min(50, Len(contents[i]))) \o <<".", ".", ".">>]

\* the text content of the nodes of a page, and what is typed in the search box
SearchTexts ==
    { <<>>, <<"a", "b">>, <<"A", "b", " ", "a">>, <<"B">>, <<"b", " ", "A">> }
Queries ==
    { <<>>, <<" ">>, <<" ", "\t">>, <<"a">>, <<"A">>, <<"b">>, <<"A", "B">>, <<"b", " ">>,
      <<" ", "a">>, <<"b", "b">> }

SearchInit ==
    /\ sContents \in UNION {[1..n -> SearchTexts] : n \in 0..MaxContents}
    /\ sQuery = <<>> /\ sResults = <<>>
    /\ MarkupIdle /\ LayoutIdle /\ EdgeIdle /\ ViewerIdle /\ HighlightIdle /\ ImageIdle

\* searchNodes (lines 1370-1393) on an input event of the search box
SearchNodes ==
    \E query \in Queries :
        /\ sQuery' = query
        /\ sResults' =
              (IF Strip(query) = <<>> THEN ClearedResults(sResults)
               ELSE LET matchingNodes == MatchingNodes(sContents, query, 1)
                    IN ClearedResults(sResults) \o
                           [k \in DOMAIN matchingNodes |-> ResultEl(sContents, matchingNodes[k])])
        /\ UNCHANGED <<sContents, markupVars, layoutVars, edgeVars, viewerVars,
                       highlightVars, imageVars>>

SearchNext == SearchNodes
SpecSearch == SearchInit /\ [][SearchNext]_vars

(***************************************************************************)
(* SpecHighlight: highlightNode and the timers it sets (lines 1420-1425),   *)
(* called for the node of a search result that is clicked (lines 1386-1389).*)
(***************************************************************************)
MaxTime == 3000     \* the time the clock runs to, in ms
MaxCalls == 3       \* calls of highlightNode

HighlightDelay == 2000
HNodes == {"n1", "n2"}

HighlightInit ==
    /\ hNow = 0
    /\ hShadow = [n \in HNodes |-> FALSE]
    /\ hTimers = <<>>
    /\ hLast = [n \in HNodes |-> -1]
    /\ hCalls = 0
    /\ MarkupIdle /\ LayoutIdle /\ EdgeIdle /\ ViewerIdle /\ SearchIdle /\ ImageIdle

\* highlightNode(node): the box shadow is set and a timer of 2000 ms is started
HighlightNode ==
    \E n \in HNodes :
        /\ hCalls < MaxCalls
        /\ hCalls' = hCalls + 1
        /\ hShadow' = [hShadow EXCEPT ![n] = TRUE]
        /\ hTimers' = Append(hTimers, [node |-> n, due |-> hNow + HighlightDelay])
        /\ hLast' = [hLast EXCEPT ![n] = hNow]
        /\ UNCHANGED <<hNow, markupVars, layoutVars, edgeVars, viewerVars, searchVars,
                       imageVars>>

\* the callback of the oldest timer that is due: the box shadow is removed
HighlightTimeout ==
    /\ hTimers # <<>>
    /\ hTimers[1].due <= hNow
    /\ hShadow' = [hShadow EXCEPT ![hTimers[1].node] = FALSE]
    /\ hTimers' = Tail(hTimers)
    /\ UNCHANGED <<hNow, hLast, hCalls, markupVars, layoutVars, edgeVars, viewerVars,
                   searchVars, imageVars>>

\* 500 ms pass; a timer that is due fires before more time passes
HighlightTick ==
    /\ hNow + 500 <= MaxTime
    /\ IF hTimers = <<>> THEN TRUE ELSE hTimers[1].due > hNow
    /\ hNow' = hNow + 500
    /\ UNCHANGED <<hShadow, hTimers, hLast, hCalls, markupVars, layoutVars, edgeVars,
                   viewerVars, searchVars, imageVars>>

HighlightNext == HighlightNode \/ HighlightTimeout \/ HighlightTick
SpecHighlight == HighlightInit /\ [][HighlightNext]_vars

(***************************************************************************)
(* SpecImage: the page of a document with one file node: the placeholder    *)
(* extract_node_content writes for an image (lines 67-75) and its           *)
(* replacement at the end of generate_html (lines 1569-1576).               *)
(***************************************************************************)
Placeholder == "__IMAGE_PLACEHOLDER_"
ImageExts ==
    { <<".", "p", "n", "g">>, <<".", "j", "p", "g">>, <<".", "j", "p", "e", "g">>,
      <<".", "g", "i", "f">>, <<".", "s", "v", "g">> }

\* str.lower over the letters of the model
Lower(s) ==
    LET up == <<"P", "N", "G", "J", "E", "I", "F", "S", "V">>
        low == <<"p", "n", "g", "j", "e", "i", "f", "s", "v">>
    IN [i \in DOMAIN s |->
            IF \E k \in DOMAIN up : up[k] = s[i]
            THEN low[CHOOSE k \in DOMAIN up : up[k] = s[i]] ELSE s[i]]

EndsWith(s, p) == Len(s) >= Len(p) /\ SubSeq(s, Len(s) - Len(p) + 1, Len(s)) = p

RECURSIVE PathName(_)
\* Path(file_path).name
PathName(path) ==
    IF FirstTok(path, 1, "/") = 0 THEN path
    ELSE PathName(SubSeq(path, FirstTok(path, 1, "/") + 1, Len(path)))

\* extract_node_content for a file node (lines 67-75); a file that is no image
\* does not exist on disk; the folder sign is the token "F" and the word File
\* the token "f"
ExtractFileContent(file_path) ==
    IF file_path = <<>> THEN <<>>
    ELSE <<"F", " ", " ", "*", "*", "f", ":", "*", "*", " ">> \o file_path \o
         (IF \E ext \in ImageExts : EndsWith(Lower(file_path), ext)
          THEN <<NL, NL, Placeholder>> \o <<"_", "s", "r", "c", "/">> \o PathName(file_path)
                   \o <<"_", "_">>
          ELSE <<>>)

\* the end of the match of _src/.*?\.(?:png|jpg|jpeg|gif|svg)__ that starts
\* at token i, 0 if there is none: the first extension followed by __
MarkerEnd(s, i) ==
    LET ends == {j \in i..Len(s) :
                    /\ MatchAt(s, i, <<"_", "s", "r", "c", "/">>)
                    /\ j >= i + 5
                    /\ \A k \in i..j : s[k] # NL
                    /\ \E ext \in ImageExts :
                          /\ j - Len(ext) + 1 >= i + 5
                          /\ SubSeq(s, j - Len(ext) + 1, j) = ext
                    /\ MatchAt(s, j + 1, <<"_", "_">>)}
    IN IF ends = {} THEN 0 ELSE SetMin(ends)

RECURSIVE ReplaceMarkers(_, _)
\* lines 1569-1576: every marker the pattern finds becomes an img element
ReplaceMarkers(s, i) ==
    IF i > Len(s) THEN <<>>
    ELSE IF s[i] = Placeholder /\ MarkerEnd(s, i + 1) # 0
    THEN <<"<img>">> \o SubSeq(s, i + 1, MarkerEnd(s, i + 1)) \o <<"</img>">>
             \o ReplaceMarkers(s, MarkerEnd(s, i + 1) + 3)
    ELSE <<s[i]>> \o ReplaceMarkers(s, i + 1)

\* the paths of file nodes: in a directory or not, a name, an extension in
\* lower, upper or mixed case, or no image extension
ImagePaths ==
    {dir \o stem \o ext :
        dir \in {<<>>, <<"d", "/">>},
        stem \in {<<"a">>, <<"P", "i">>, <<"a", ".", "b">>},
        ext \in ImageExts \cup
               { <<".", "P", "N", "G">>, <<".", "J", "p", "g">>, <<".", "J", "P", "E", "G">>,
                 <<".", "G", "I", "F">>, <<".", "S", "v", "g">>, <<".", "t", "x", "t">>,
                 <<".", "p", "n", "g", "x">>, <<>>, <<".", "m", "d">> }}

ImageInit ==
    /\ iFile \in ImagePaths /\ iHtml = <<>> /\ iPc = "ready"
    /\ MarkupIdle /\ LayoutIdle /\ EdgeIdle /\ ViewerIdle /\ SearchIdle /\ HighlightIdle

\* generate_html for the file node: its content rendered (lines 750-832) and the
\* markers replaced (lines 1569-1576)
RenderFileNode ==
    /\ iPc = "ready"
    /\ iHtml' = ReplaceMarkers(RenderContent(ExtractFileContent(iFile)), 1)
    /\ iPc' = "done"
    /\ UNCHANGED <<iFile, markupVars, layoutVars, edgeVars, viewerVars, searchVars,
                   highlightVars>>

ImageNext == RenderFileNode
SpecImage == ImageInit /\ [][ImageNext]_vars

(***************************************************************************)
(* Claims about the markup.                                                 *)
(***************************************************************************)
mLines == Split(mText, NL)

\* a fence marker line, and the lines that lie outside every fenced region
IsFenceLine(line) == StartsWith(Strip(line), Fence)
FencesBefore(ls, i) == Cardinality({j \in 1..(i - 1) : IsFenceLine(ls[j])})
OutsideCode(ls, i) == ~IsFenceLine(ls[i]) /\ FencesBefore(ls, i) % 2 = 0

\* the closed regions of a text: <<opening line, closing line>>, markers alternating
ClosedRegions(ls) ==
    {<<o, c>> \in (1..Len(ls)) \X (1..Len(ls)) :
        /\ o < c /\ IsFenceLine(ls[o]) /\ IsFenceLine(ls[c])
        /\ FencesBefore(ls, o) % 2 = 0
        /\ \A j \in (o + 1)..(c - 1) : ~IsFenceLine(ls[j])}

\* the original lines of a region minus its first (language tag) line
RegionBody(ls, r) == Join(SubSeq(ls, r[1] + 1, r[2] - 1), NL)

RECURSIVE PreBodies(_, _)
\* the bodies of the code blocks of a rendered content, in order
PreBodies(s, i) ==
    LET o == FirstTok(s, i, "<pre>")
        c == IF o = 0 THEN 0 ELSE FirstTok(s, o + 1, "</pre>")
    IN IF c = 0 THEN <<>> ELSE <<SubSeq(s, o + 1, c - 1)>> \o PreBodies(s, c + 1)

\* a rendered body with its line breaks read back as newlines
BodyText(body) == [i \in 1..Len(body) |-> IF body[i] = "<br>" THEN NL ELSE body[i]]

\* C1: the rendered body of every closed fenced region is the region's original
\* lines minus its language line, with no inline or paragraph substitution in it
\* (compared up to surrounding white space, a <br> counted as its newline)
C1_CodeBodyVerbatim ==
    mPc = "done" =>
        \A r \in ClosedRegions(mLines) :
            \E b \in DOMAIN PreBodies(mHtml, 1) :
                Strip(BodyText(PreBodies(mHtml, 1)[b])) = Strip(RegionBody(mLines, r))

BulletLine == <<"-", " ", "a">>
\* the text is k bullet lines followed by one blank line
IsBulletRun(ls, k) ==
    /\ Len(ls) = k + 1 /\ ls[k + 1] = <<>>
    /\ \A i \in 1..k : ls[i] = BulletLine

\* C2: k consecutive bullet lines followed by a blank line render as exactly one
\* unordered list of exactly k items, no bullet line left outside the list
C2_OneListOfKItems ==
    mPc = "done" =>
        \A k \in 1..MaxLines :
            IsBulletRun(mLines, k) =>
                /\ CountTok(mHtml, "<ul>") = 1 /\ CountTok(mHtml, "</ul>") = 1
                /\ CountTok(mHtml, "<li>") = k /\ CountTok(mHtml, "</li>") = k
                /\ CountTok(mHtml, "-") = 0

\* a line that begins with exactly k # followed by a space
IsHashLine(line, k) == StartsWith(line, HeadingPrefix(k))
\* ... and then by text that is not blank
IsHeadingText(line, k) ==
    IsHashLine(line, k) /\ Strip(SubSeq(line, k + 2, Len(line))) # <<>>

\* C3 as stated: outside code regions, every line that begins with exactly k #
\* (k in 1..6) and a space is a heading of level k, and nothing else is a heading
C3_HeadingEveryHashLine ==
    mPc = "done" =>
        \A k \in 1..6 :
            CountTok(mHtml, HOpen[k]) =
                Cardinality({i \in DOMAIN mLines :
                    OutsideCode(mLines, i) /\ IsHashLine(mLines[i], k)})

\* C3 as amended: the same for the lines whose text after the # run and the space
\* is not blank; a line "# " with nothing after it stays prose
C3_HeadingLevels ==
    mPc = "done" =>
        \A k \in 1..6 :
            CountTok(mHtml, HOpen[k]) =
                Cardinality({i \in DOMAIN mLines :
                    OutsideCode(mLines, i) /\ IsHeadingText(mLines[i], k)})

\* a rendered text with the line ###### Z outside code, which came out as <h6>
C3_Witness ==
    /\ mPc = "done"
    /\ \E i \in DOMAIN mLines :
        OutsideCode(mLines, i) /\ mLines[i] = HeadingPrefix(6) \o <<"Z">>
    /\ CountTok(mHtml, "<h6>") = 1 /\ CountTok(mHtml, "<h1>") = 0

(***************************************************************************)
(* Claims about the layout.                                                 *)
(***************************************************************************)
Range(f) == {f[i] : i \in DOMAIN f}
lDist(i) == Distance(lNodes, i)
lCount == Len(lNodes)

\* C4: a list of at most 2 nodes comes back unchanged, same nodes, same order
C4_SmallListUnchanged ==
    lPc = "done" /\ lCount <= 2 => lMain = [i \in 1..lCount |-> i]

\* a list of two different nodes that came back whole
C4_Witness ==
    /\ lPc = "done" /\ lCount = 2 /\ lNodes[1] # lNodes[2]
    /\ lMain = <<1, 2>>

\* node i lies farther than mean + 1.5 * stddev of the distances of the other nodes
IsRestOutlier(i) ==
    LET rest == {j \in 1..lCount : j # i}
        m == lCount - 1
        sum == SumSeq([j \in 1..lCount |-> IF j = i THEN 0 ELSE lDist(j)])
        sum2 == SumSeq([j \in 1..lCount |-> IF j = i THEN 0 ELSE lDist(j) * lDist(j)])
        f == m * lDist(i) - sum
    IN f > 0 /\ 4 * f * f > 9 * (m * sum2 - sum * sum)

\* node i lies farther than mean + 1.5 * stddev of the distances of all the nodes
ExceedsThreshold(i) ==
    LET sum == SumSeq([j \in 1..lCount |-> lDist(j)])
        f == lCount * lDist(i) - sum
        sq == SumSeq([j \in 1..lCount |-> (lCount * lDist(j) - sum) * (lCount * lDist(j) - sum)])
    IN f > 0 /\ 4 * lCount * f * f > 9 * sq

\* C5 as stated: with more than 2 nodes, one of them the only outlier against
\* the rest, exactly that node is left out
C5_RestOutlierExcluded ==
    lPc = "done" /\ lCount > 2 =>
        \A i \in 1..lCount :
            (IsRestOutlier(i) /\ \A j \in 1..lCount : j # i => ~IsRestOutlier(j))
                => Range(lMain) = (1..lCount) \ {i}

\* C5 as amended: with more than 2 nodes the result is, by increasing distance,
\* exactly the nodes within mean + 1.5 * stddev of the distances of ALL the nodes;
\* of 3 nodes none is ever left out
C5_ThresholdOverAllNodes ==
    lPc = "done" /\ lCount > 2 =>
        /\ Range(lMain) = {i \in 1..lCount : ~ExceedsThreshold(i)}
        /\ \A a, b \in DOMAIN lMain : a < b => lMain[a] # lMain[b] /\ lDist(lMain[a]) <= lDist(lMain[b])
        /\ lCount = 3 => Range(lMain) = 1..3

\* a list of 4 nodes whose outlier against the rest was left out, alone
C5_Witness ==
    /\ lPc = "done" /\ lCount = 4
    /\ \E i \in 1..4 : IsRestOutlier(i) /\ Range(lMain) = (1..4) \ {i}

\* the bounding box of the main nodes, from the state
lBox(coord(_), pick(_)) == pick({coord(lNodes[i]) : i \in Range(lMain)})
Left(n) == n.x
Top(n) == n.y
Right(n) == n.x + n.width
Bottom(n) == n.y + n.height

\* C6: for a non-empty list the canvas is the bounding box of the main nodes plus
\* 200 on every side and 100 more on top, never below 2000 by 1500, and the
\* offsets are -minX + 200 and -minY + 200 + 100
C6_CanvasExtent ==
    lPc = "done" /\ lCount > 0 =>
        LET w == lBox(Right, SetMax) - lBox(Left, SetMin) + 2 * 200
            h == lBox(Bottom, SetMax) - lBox(Top, SetMin) + 2 * 200 + 100
        IN /\ lExtent.canvas_width = (IF w >= 2000 THEN w ELSE 2000)
           /\ lExtent.canvas_height = (IF h >= 1500 THEN h ELSE 1500)
           /\ lExtent.offset_x = -lBox(Left, SetMin) + 200
           /\ lExtent.offset_y = -lBox(Top, SetMin) + 200 + 100

\* a document whose extent exceeds the minimum on both axes
C6_Witness ==
    /\ lPc = "done" /\ lCount > 0
    /\ lExtent.canvas_width > 2000 /\ lExtent.canvas_height > 1500

(***************************************************************************)
(* Claims about the edge router.                                            *)
(***************************************************************************)
\* the midpoint of a side of a rectangle, moved out by standoff pixels along the
\* side's normal, in half pixels
SideMidpoint(r, side, standoff) ==
    CASE side = "top" -> Pt(2 * r.x + r.width, 2 * r.y - 2 * standoff)
      [] side = "bottom" -> Pt(2 * r.x + r.width, 2 * (r.y + r.height) + 2 * standoff)
      [] side = "left" -> Pt(2 * r.x - 2 * standoff, 2 * r.y + r.height)
      [] side = "right" -> Pt(2 * (r.x + r.width) + 2 * standoff, 2 * r.y + r.height)

eEdgeOf(p) == eEdges[p.edge]
ExampleA == Rect(0, 0, 100, 50)
ExampleB == Rect(300, 0, 100, 50)

\* C7: every path starts at the midpoint of the declared departure side and ends
\* at the midpoint of the declared arrival side moved 30 outward; for the example
\* rectangles and sides (right, left) these are (100, 25) and (270, 25)
C7_AnchorPoints ==
    \A k \in DOMAIN eLayer :
        LET p == eLayer[k]
            e == eEdgeOf(p)
        IN /\ e.fromSide \in Sides =>
                p.d[1] = SideMidpoint(eNodes[e.fromNode], e.fromSide, 0)
           /\ e.toSide \in Sides =>
                p.d[4] = SideMidpoint(eNodes[e.toNode], e.toSide, 30)
           /\ (/\ eNodes[e.fromNode] = ExampleA /\ eNodes[e.toNode] = ExampleB
               /\ e.fromSide = "right" /\ e.toSide = "left")
                => p.d[1] = Pt(2 * 100, 2 * 25) /\ p.d[4] = Pt(2 * 270, 2 * 25)

\* the example edge has been drawn
C7_Witness ==
    \E k \in DOMAIN eLayer :
        /\ eNodes[eEdgeOf(eLayer[k]).fromNode] = ExampleA
        /\ eNodes[eEdgeOf(eLayer[k]).toNode] = ExampleB
        /\ eEdgeOf(eLayer[k]).fromSide = "right" /\ eEdgeOf(eLayer[k]).toSide = "left"
        /\ eLayer[k].d[4] = Pt(540, 50)

\* A lies entirely to the left of B and their vertical centres are equal
LeftOfOnCentreLine(a, b) ==
    a.x + a.width <= b.x /\ 2 * a.y + a.height = 2 * b.y + b.height

\* the reflection of a point about the vertical line midway between A's right
\* border and B's left border, in half pixels
Mirror(a, b, pt) == Pt(2 * (a.x + a.width) + 2 * b.x - pt.x, pt.y)

\* a path of A->B (right, left) and a path of B->A (left, right), both polylines
MirrorPair(p, q) ==
    /\ eEdgeOf(p) = Edge("A", "B", "right", "left")
    /\ eEdgeOf(q) = Edge("B", "A", "left", "right")
    /\ p.shape = "L" /\ q.shape = "L"
    /\ LeftOfOnCentreLine(eNodes["A"], eNodes["B"])

\* C8: with A left of B on one centre line, the polyline of A->B (right, left) is
\* the mirror image, point by point, of the polyline of B->A (left, right)
C8_MirrorPaths ==
    \A k, l \in DOMAIN eLayer :
        MirrorPair(eLayer[k], eLayer[l]) =>
            \A i \in 1..4 : eLayer[l].d[i] = Mirror(eNodes["A"], eNodes["B"], eLayer[k].d[i])

\* both polylines of such a pair have been drawn
C8_Witness ==
    \E k, l \in DOMAIN eLayer : MirrorPair(eLayer[k], eLayer[l])

\* an edge one of whose endpoints names no node
Dangling(e) == e.fromNode \notin DOMAIN eNodes \/ e.toNode \notin DOMAIN eNodes
PathsOf(i) == {k \in DOMAIN eLayer : eLayer[k].edge = i}
LabelsOf(i) == {k \in DOMAIN eLabels : eLabels[k].edge = i}

\* C13: of the edges the draw pass has come to, each one with a missing endpoint
\* is reported and has no path and no label, and every other one has exactly one
\* path and is not reported; the pass goes on to the end of the list
C13_DanglingEdgeSkipped ==
    /\ \A i \in 1..(eNext - 1) :
        IF Dangling(eEdges[i])
        THEN i \in Range(eLog) /\ PathsOf(i) = {} /\ LabelsOf(i) = {}
        ELSE Cardinality(PathsOf(i)) = 1 /\ i \notin Range(eLog)
    /\ \A i \in eNext..Len(eEdges) : PathsOf(i) = {} /\ i \notin Range(eLog)
    /\ eNext <= Len(eEdges) => ENABLED DrawEdge

\* a pass that is over, with a labelled dangling edge first and a drawn edge after it
C13_Witness ==
    /\ eNext > Len(eEdges) /\ Len(eEdges) = 2
    /\ Dangling(eEdges[1]) /\ eEdges[1].label # NoLabel /\ eLog = <<1>>
    /\ ~Dangling(eEdges[2]) /\ PathsOf(2) = {1}

\* the side the delta between the two origins points to (dominant axis first)
InferredSide(node, target) ==
    LET dx == target.x - node.x
        dy == target.y - node.y
    IN IF Abs(dx) > Abs(dy)
       THEN (IF dx > 0 THEN "right" ELSE "left")
       ELSE (IF dy > 0 THEN "bottom" ELSE "top")

\* C12: an endpoint whose side the edge does not declare is anchored on the side
\* inferred from the delta between the two rectangles' origins
C12_UndeclaredSideInferred ==
    \A k \in DOMAIN eLayer :
        LET p == eLayer[k]
            e == eEdgeOf(p)
            from == eNodes[e.fromNode]
            to == eNodes[e.toNode]
        IN /\ e.fromSide = NoSide =>
                p.d[1] = SideMidpoint(from, InferredSide(from, to), 0)
           /\ e.toSide = NoSide =>
                p.d[4] = SideMidpoint(to, InferredSide(to, from), 30)

(***************************************************************************)
(* Claims about the viewer.                                                 *)
(***************************************************************************)
\* the content coordinate shown at a window point, and the window point where a
\* content coordinate is shown, for a zoom z and scroll offsets s
ContentAt(pt, z, s) ==
    QPt(QDiv(QAdd(QSub(pt.x, QInt(ContainerLeft)), s.x), z),
        QDiv(QAdd(QSub(pt.y, QInt(ContainerTop)), s.y), z))
ScreenOf(c, z, s) ==
    QPt(QAdd(QInt(ContainerLeft), QSub(QMul(c.x, z), s.x)),
        QAdd(QInt(ContainerTop), QSub(QMul(c.y, z), s.y)))

\* the offsets the last zoom assigned lay within the container's scroll range
\* and were stored as assigned
StoredAsAssigned ==
    scroll = FocusScroll(RelativePoint(focus.pt, focus.zoom, focus.scroll), focus.zoom, zoom,
                         focus.scroll)

\* C9: after a zoom at a pointer (zoomIn, zoomOut, Ctrl+wheel), from any zoom and
\* any scroll offsets, the content coordinate that was under the pointer before
\* the zoom is shown at the same window point after it; stated for the zooms
\* whose offsets were stored as assigned
C9_PointerStaysOnContent ==
    (lastOp \in ZoomOps /\ StoredAsAssigned) =>
        ScreenOf(ContentAt(focus.pt, focus.zoom, focus.scroll), zoom, scroll) = focus.pt

\* C10: after every zoom operation the zoom is between the minimum zoom of the
\* current container size and 3
C10_ZoomWithinBounds ==
    lastOp \in ZoomOps \cup {"zoomReset"} =>
        QLe(CalculateMinZoom(vNodes, vp), zoom) /\ QLe(zoom, QInt(3))

\* C11: the zoom of the most recent auto-fit (load or zoomReset) stays the optimal
\* zoom through zoomIn, zoomOut and Ctrl+wheel, and after each of them scrolling
\* is disabled exactly when the zoom is within 0.05 of that auto-fit zoom, also
\* when the auto-fit zoom is 1
C11_OptimalZoomKept ==
    (lastOp \in ZoomOps /\ vNodes # <<>>) =>
        /\ optimalZoom = fitZoom
        /\ scrollEnabled <=> ~QLt(QAbs(QSub(zoom, fitZoom)), Q(1, 20))

\* a node that has its four fields and, as a group, a colour the page can show
WellFormed(node) == ~MissingField(node) /\ ~GroupColorRaises(node)

\* C14: the export of every document returns True and emits a box for every
\* well-formed node: a node that lacks x, y, width or height, or a group node
\* whose literal colour is shorter than #rrggbb, does not abort the render
C14_AnomalyNeverAborts ==
    lPc \in {"done", "raised"} =>
        /\ lPc = "done" /\ lExported = "true"
        /\ \A i \in DOMAIN lNodes : WellFormed(lNodes[i]) => i \in DOMAIN lBoxes

\* C15: for every document of well-formed nodes, every node, also one that
\* filter_main_nodes excludes from the extent, is emitted as a box, the boxes
\* in the order of the nodes
C15_EveryNodeEmitted ==
    lPc = "done" =>
        /\ Len(lBoxes) = Len(lNodes)
        /\ \A i \in DOMAIN lNodes :
              /\ lBoxes[i].left = lNodes[i].x + lExtent.offset_x
              /\ lBoxes[i].top = lNodes[i].y + lExtent.offset_y
              /\ lBoxes[i].width = Max(150, lNodes[i].width)
              /\ lBoxes[i].height = Max(60, lNodes[i].height)

\* a document of four nodes with an excluded node that is not the last one,
\* rendered with a box for each node
C15_Witness ==
    /\ lPc = "done" /\ Len(lNodes) = 4 /\ Len(lBoxes) = 4
    /\ \E i \in 1..3 : i \notin Range(lMain)

\* C16: every node of every document (no group colour in the way) is rendered
\* as a box at least 150 wide and 60 high, a node without a width 200 wide and
\* a node without a height 100 high
C16_ClampedAndDefaulted ==
    (lPc \in {"done", "raised"} /\ \A i \in DOMAIN lNodes : ~GroupColorRaises(lNodes[i])) =>
        /\ Len(lBoxes) = Len(lNodes)
        /\ \A i \in DOMAIN lNodes :
              /\ lBoxes[i].width >= 150 /\ lBoxes[i].height >= 60
              /\ ~Has(lNodes[i], "width") => lBoxes[i].width = 200
              /\ ~Has(lNodes[i], "height") => lBoxes[i].height = 100

\* the bounding box of the rendered nodes and its centre
vContentWidth == SetMax({n.x + n.width : n \in Range(vNodes)}) - SetMin({n.x : n \in Range(vNodes)})
vContentHeight == SetMax({n.y + n.height : n \in Range(vNodes)}) - SetMin({n.y : n \in Range(vNodes)})
vCentre ==
    QPt(Q(SetMin({n.x : n \in Range(vNodes)}) + SetMax({n.x + n.width : n \in Range(vNodes)}), 2),
        Q(SetMin({n.y : n \in Range(vNodes)}) + SetMax({n.y + n.height : n \in Range(vNodes)}), 2))

\* a value kept within 0..most
Clamped(q, most) == QMax(QInt(0), QMin(q, most))

AutoFitted == lastOp \in {"load", "zoomReset"} /\ vNodes # <<>>

\* C17 as stated: after the auto-fit of a page with a node the zoom is
\* max(min(viewportWidth / contentWidth, viewportHeight / contentHeight, 1), 0.1)
\* and the scroll offsets are centre * zoom - viewport / 2
C17_AutoFitWholeViewport ==
    AutoFitted =>
        /\ zoom = QMax(QMin(QMin(Q(vp.w, vContentWidth), Q(vp.h, vContentHeight)), QInt(1)),
                       Q(1, 10))
        /\ scroll = QPt(QSub(QMul(vCentre.x, zoom), Q(vp.w, 2)),
                        QSub(QMul(vCentre.y, zoom), Q(vp.h, 2)))

\* C17 as amended: the zoom is max(min((viewportWidth - 100) / contentWidth,
\* (viewportHeight - 100) / contentHeight, 1), 0.1), and the scroll offsets are
\* centre * zoom - viewport / 2 brought into the container's scroll range
C17_AutoFit ==
    AutoFitted =>
        /\ zoom = QMax(QMin(QMin(Q(vp.w - 100, vContentWidth), Q(vp.h - 100, vContentHeight)),
                            QInt(1)),
                       Q(1, 10))
        /\ scroll = QPt(Clamped(QSub(QMul(vCentre.x, zoom), Q(vp.w, 2)),
                                ScrollMax(vNodes, vCanvas, vp, zoom).x),
                        Clamped(QSub(QMul(vCentre.y, zoom), Q(vp.h, 2)),
                                ScrollMax(vNodes, vCanvas, vp, zoom).y))

\* a page loaded at a zoom between 0.1 and 1 with its content centred, both
\* offsets positive
C17_Witness ==
    /\ lastOp = "load" /\ vNodes # <<>>
    /\ QLt(Q(1, 10), zoom) /\ QLt(zoom, QInt(1))
    /\ QLt(QInt(0), scroll.x) /\ QLt(QInt(0), scroll.y)
    /\ scroll = QPt(QSub(QMul(vCentre.x, zoom), Q(vp.w, 2)),
                    QSub(QMul(vCentre.y, zoom), Q(vp.h, 2)))

(***************************************************************************)
(* Claims about the search.                                                 *)
(***************************************************************************)
\* two characters that are the same letter, whatever their case
SameLetter(c, d) == c = d \/ {c, d} = {"a", "A"} \/ {c, d} = {"b", "B"}

\* the text holds the query as a substring, case ignored
HoldsQuery(text, query) ==
    \E k \in 1..(Len(text) - Len(query) + 1) :
        \A j \in 1..Len(query) : SameLetter(text[k + j - 1], query[j])

\* C18: the result list holds exactly one entry for each node whose text
\* content holds the last query as a substring, case ignored, in node order,
\* and nothing of an earlier query; it is empty for a query that is empty or
\* only white space
C18_SearchResults ==
    IF \A j \in DOMAIN sQuery : sQuery[j] \in White
    THEN sResults = <<>>
    ELSE /\ {sResults[k].node : k \in DOMAIN sResults}
              = {i \in DOMAIN sContents : HoldsQuery(sContents[i], sQuery)}
         /\ \A k, l \in DOMAIN sResults : k < l => sResults[k].node < sResults[l].node

\* the query AB found the second of two nodes, whose text holds Ab, and not
\* the first
C18_Witness ==
    /\ sQuery = <<"A", "B">> /\ Len(sContents) = 2
    /\ sContents[1] = <<"B">> /\ sContents[2] = <<"A", "b", " ", "a">>
    /\ Len(sResults) = 1 /\ sResults[1].node = 2

(***************************************************************************)
(* Claims about one-line code regions and the flavor of lists.              *)
(***************************************************************************)
\* C19: a code region whose text between the opening and the closing marker
\* has no line break is rendered as a code block whose body is that one line
C19_SingleLineRegionKept ==
    (mPc = "done" /\ \E i \in DOMAIN mLines : mLines[i] = InlineRegion) =>
        \E b \in DOMAIN PreBodies(mHtml, 1) : PreBodies(mHtml, 1)[b] = <<"a", "b", "c">>

\* a line of the form N. text, and a line that is a - or * bullet
IsOrderedItem(line) ==
    Len(line) >= 4 /\ line[1] \in Digits /\ line[2] = "." /\ line[3] = " "
IsBulletItem(line) == Len(line) >= 3 /\ line[1] \in {"-", "*"} /\ line[2] = " "

\* the first list item of the text, 0 when it has none
FirstItem ==
    LET items == {i \in DOMAIN mLines : IsOrderedItem(mLines[i]) \/ IsBulletItem(mLines[i])}
    IN IF items = {} THEN 0 ELSE SetMin(items)

\* the first list the page opens: "ol", "ul", or "none"
FirstList ==
    LET o == FirstTok(mHtml, 1, "<ol>")
        u == FirstTok(mHtml, 1, "<ul>")
    IN CASE o = 0 /\ u = 0 -> "none"
         [] o # 0 /\ (u = 0 \/ o < u) -> "ol"
         [] OTHER -> "ul"

\* C20: where the page opens a list, its flavor is that of the first item of the
\* run: ordered for an item N. text, unordered for a - or * bullet
C20_FlavorOfFirstItem ==
    (mPc = "done" /\ FirstItem # 0 /\ FirstList # "none") =>
        FirstList = (IF IsOrderedItem(mLines[FirstItem]) THEN "ol" ELSE "ul")

(***************************************************************************)
(* Claims about the shape of the edges and their labels.                    *)
(***************************************************************************)
eFromSide(p) == SideOr(eEdgeOf(p).fromSide, "right")
eToSide(p) == SideOr(eEdgeOf(p).toSide, "left")

\* the curve defined by the two anchors and the two perpendicular control
\* points alone
PlainCurve(p) ==
    LET from == SideMidpoint(eNodes[eEdgeOf(p).fromNode], eFromSide(p), 0)
        to == SideMidpoint(eNodes[eEdgeOf(p).toNode], eToSide(p), 30)
    IN <<from, ControlPoint(from, eFromSide(p)), ControlPoint(to, eToSide(p)), to>>

\* the last call of drawEdge drew a path, the last of the layer
LastDrawn == eDraw # <<>> /\ eLayer # <<>>

\* C21: a cubic curve drawn with a displacement that is not zero is not the
\* curve defined by the two perpendicular control points alone
C21_CurveDisplaced ==
    (LastDrawn /\ eLayer[Len(eLayer)].shape = "C" /\ eDraw.mid.offset2 > 0) =>
        eLayer[Len(eLayer)].d # PlainCurve(eLayer[Len(eLayer)])

\* C22: a path is a polyline only when its two sides are opposite: same-side
\* pairs and adjacent pairs are drawn as cubic curves
C22_PolylineOnlyOpposite ==
    \A k \in DOMAIN eLayer :
        eLayer[k].shape = "L" =>
            {eFromSide(eLayer[k]), eToSide(eLayer[k])} \in {{"left", "right"}, {"top", "bottom"}}

\* C23 as stated: the label point of a polyline is the midpoint of its two
\* anchors on both axes, that of a cubic curve (P0 + 3 P1 + 3 P2 + P3) / 8
C23_LabelAtMidpoint ==
    \A k \in DOMAIN eLayer :
        LET p == eLayer[k] IN
        IF p.shape = "L"
        THEN p.label = Pt(4 * (p.d[1].x + p.d[4].x), 4 * (p.d[1].y + p.d[4].y))
        ELSE p.label = Pt(p.d[1].x + 3 * p.d[2].x + 3 * p.d[3].x + p.d[4].x,
                          p.d[1].y + 3 * p.d[2].y + 3 * p.d[3].y + p.d[4].y)

\* C23 as amended: the label point of a polyline is the midpoint of its two
\* anchors on the axis the polyline runs along and the departure anchor's
\* coordinate on the other axis (less than half a pixel from the midpoint);
\* that of a cubic curve is (P0 + 3 P1 + 3 P2 + P3) / 8
C23_LabelPoint ==
    \A k \in DOMAIN eLayer :
        LET p == eLayer[k] IN
        IF p.shape = "L"
        THEN /\ p.label = (IF Abs(p.d[4].x - p.d[1].x) > Abs(p.d[4].y - p.d[1].y)
                           THEN Pt(4 * (p.d[1].x + p.d[4].x), 8 * p.d[1].y)
                           ELSE Pt(8 * p.d[1].x, 4 * (p.d[1].y + p.d[4].y)))
             /\ Abs(p.label.x - 4 * (p.d[1].x + p.d[4].x)) < 8
             /\ Abs(p.label.y - 4 * (p.d[1].y + p.d[4].y)) < 8
        ELSE p.label = Pt(p.d[1].x + 3 * p.d[2].x + 3 * p.d[3].x + p.d[4].x,
                          p.d[1].y + 3 * p.d[2].y + 3 * p.d[3].y + p.d[4].y)

\* a polyline whose label is off the midpoint of its anchors, and a cubic curve
\* whose label is off the midpoint of its end points
C23_Witness ==
    /\ Len(eLayer) = 2 /\ eLayer[1].shape = "L" /\ eLayer[2].shape = "C"
    /\ eLayer[1].label.y # 4 * (eLayer[1].d[1].y + eLayer[1].d[4].y)
    /\ eLayer[2].label # Pt(4 * (eLayer[2].d[1].x + eLayer[2].d[4].x),
                            4 * (eLayer[2].d[1].y + eLayer[2].d[4].y))

\* C27: two draws of the same edge between the same rectangles give the same
\* path data and the same label point, whatever the random draws were
C27_DrawDeterministic ==
    \A k, l \in DOMAIN eLayer :
        eEdgeOf(eLayer[k]) = eEdgeOf(eLayer[l]) =>
            eLayer[k].d = eLayer[l].d /\ eLayer[k].label = eLayer[l].label

\* the same edge drawn twice as a cubic curve, the second time with a central
\* control point off the midpoint
C27_Witness ==
    /\ Len(eLayer) = 2 /\ eEdges[1] = eEdges[2] /\ eLayer[2].shape = "C"
    /\ eLayer[1].d = eLayer[2].d
    /\ LastDrawn /\ eDraw.mid.offset2 > 0 /\ eDraw.mid.direction = -1

(***************************************************************************)
(* Claims about the label backgrounds.                                      *)
(***************************************************************************)
\* the background of a label for the text box that was measured: the box and 6
\* around it when its width and height are positive, otherwise 8 per character
\* by 16 and 6 around it, centred on the label point (sixteenths of a pixel)
BackgroundFits(lab) ==
    IF lab.bbox.width > 0 /\ lab.bbox.height > 0
    THEN /\ lab.rect.x = 16 * (lab.bbox.x - 6) /\ lab.rect.y = 16 * (lab.bbox.y - 6)
         /\ lab.rect.width = 16 * (lab.bbox.width + 12)
         /\ lab.rect.height = 16 * (lab.bbox.height + 12)
    ELSE /\ lab.rect.width = 16 * (Len(lab.text) * 8 + 12) /\ lab.rect.height = 16 * (16 + 12)
         /\ 2 * lab.rect.x + lab.rect.width = 2 * lab.at.x
         /\ 2 * lab.rect.y + lab.rect.height = 2 * lab.at.y

LabelsSafe ==
    /\ \A i \in 1..(eNext - 1) :
          Cardinality(LabelsOf(i)) =
              (IF eEdges[i].label # NoLabel /\ ~Dangling(eEdges[i]) THEN 1 ELSE 0)
    /\ \A k \in DOMAIN eLabels :
          /\ eLabels[k].children \in {<<"text">>, <<"rect", "text">>}
          /\ eNext <= Len(eEdges) => eLabels[k].children = <<"text">>
          /\ eLabels[k].children = <<"rect", "text">> => BackgroundFits(eLabels[k])

LabelsDone ==
    /\ eNext > Len(eEdges)
    /\ \A k \in DOMAIN eLabels : eLabels[k].children = <<"rect", "text">>

FenceLines == {i \in DOMAIN mLines : IsFenceLine(mLines[i])}
BoldLine == <<"*", "*", "b", "*", "*">>

\* C24: in a text whose only fence marker is never closed, no line after the
\* marker becomes a heading or a list item or gets a bold substitution
C24_RemainderInsideFence ==
    (mPc = "done" /\ Cardinality(FenceLines) = 1) =>
        LET o == CHOOSE i \in FenceLines : TRUE
            before == 1..(o - 1)
        IN /\ (\A i \in before : mLines[i] # BoldLine) => CountTok(mHtml, "<strong>") = 0
           /\ (\A i \in before : mLines[i] # BulletLine) => CountTok(mHtml, "<li>") = 0
           /\ (\A i \in before, k \in 1..6 : ~IsHashLine(mLines[i], k)) =>
                  \A k \in 1..6 : CountTok(mHtml, HOpen[k]) = 0

\* the tokens from an <em> up to its closing tag
RECURSIVE EmSpans(_, _)
EmSpans(s, i) ==
    LET o == FirstTok(s, i, "<em>")
        c == IF o = 0 THEN 0 ELSE FirstTok(s, o + 1, "</em>")
    IN IF c = 0 THEN {} ELSE {SubSeq(s, o + 1, c - 1)} \cup EmSpans(s, c + 1)

\* C26: the italic rule wraps no bold element, and it makes no italic span of
\* the leading * of bullet lines: a text of bullets, ordered items, prose and
\* blank lines has no italic span
C26_InlineRulesDisjoint ==
    mPc = "done" =>
        /\ \A span \in EmSpans(mHtml, 1) : CountTok(span, "<strong>") = 0
        /\ (\A i \in DOMAIN mLines : FirstTok(mLines[i], 1, "*") \in {0, 1}
                                      /\ CountTok(mLines[i], "*") <= 1)
              => CountTok(mHtml, "<em>") = 0

\* C28: for a non-empty document every node box, also that of a node the
\* filter excluded and of a node clamped up, lies inside the canvas
C28_BoxesInsideCanvas ==
    (lPc = "done" /\ lNodes # <<>>) =>
        \A i \in DOMAIN lBoxes :
            /\ lBoxes[i].left >= 0 /\ lBoxes[i].top >= 0
            /\ lBoxes[i].left + lBoxes[i].width <= lExtent.canvas_width
            /\ lBoxes[i].top + lBoxes[i].height <= lExtent.canvas_height

(***************************************************************************)
(* Claims about the highlight and the image placeholders.                   *)
(***************************************************************************)
\* C29: the highlight of a node is not cleared earlier than 2000 ms after the
\* most recent highlightNode call on that node, also when the node was
\* highlighted again while an earlier timer was pending
C29_HighlightLastsFull ==
    \A n \in DOMAIN hShadow :
        (hLast[n] >= 0 /\ ~hShadow[n]) => hNow >= hLast[n] + HighlightDelay

\* C30: the page of a file node never contains the placeholder text
C30_NoPlaceholderLeft ==
    iPc = "done" => CountTok(iHtml, Placeholder) = 0

====
